---------------------------- MODULE Spec2Model ----------------------------
(***************************************************************************)
(* Polarbear-Chatbot: the topic classifier and fallback responder of       *)
(* js/ai-service.js and the blueprint extractor and section localizer of   *)
(* js/blueprint-generator.js, as state machines over JavaScript strings.   *)
(*                                                                         *)
(* A JavaScript string is a TLA+ string; TLC evaluates Len, \o and SubSeq  *)
(* on strings, so s.length is Len(s) and s.charAt(i-1) is SubSeq(s, i, i). *)
(* Accented letters of the source are written as the letter followed by ^  *)
(* (n~ for the Spanish enye) and any other non-ASCII run of a response      *)
(* text as ~.                                                              *)
(***************************************************************************)
EXTENDS Integers, Sequences, FiniteSets, TLC

VARIABLES
  \* --- AIService: one call of the fallback responder / classifier ---
  message,      \* the userMessage argument
  lang,         \* the value getLang() returned to the last call, or Unset
  input,        \* the text being normalized and classified
  nPre,         \* how many times preprocessMessage has been applied to input
  detected,     \* result of detectTopic(input) with the deciding pass, or Unset
  reply,        \* result of getFallbackResponse(message), or Unset
  \* --- AIService.generateResponse: one call ---
  gen,          \* record of the call: its state, its requests, its result
  \* --- BlueprintGenerator: extraction ---
  messages,     \* ChatManager.messages: sequence of [role, content]
  text,         \* argument of the last splitIntoSentences call
  sentences,    \* its result, or NotSplit
  sectionFound, \* result of the last detectSectionForText call, or Unset
  sections,     \* this.lastSectionsSource: the last buildSections(messages), or NotBuilt
  \* --- BlueprintGenerator: localization ---
  translationCache,  \* this.translationCache: cacheKey -> sections
  calls,             \* the maybeTranslateSections calls issued so far
  netLog,            \* the requests sent to the translation provider, in order
  \* --- AIService: connection ---
  apiKey,            \* this.apiKey, which getAIConfig reads too
  isAvailable,       \* this.isAvailable
  \* --- the page: display language and blueprint container ---
  langSource,        \* localStorage 'polar.lang' and <html lang>, as the page holds them
  displayLang,       \* what getCurrentLanguage() returns
  rendered,          \* what the blueprint container shows
  ariaExpanded,      \* the aria-expanded attribute of the blueprint button
  \* --- ChatManager ---
  isTyping,          \* this.isTyping
  aiMode,            \* this.aiMode
  autoSave,          \* this.autoSave
  sends,             \* the sendMessage calls made so far, each with its position
  settings,          \* the settings store of the database: key -> value
  notice             \* what the last showMessage displayed, or NoNotice

aiVars  == <<message, lang, input, nPre, detected, reply>>
genVars == <<gen>>
bpVars  == <<messages, text, sentences, sectionFound, sections>>
trVars  == <<translationCache, calls, netLog>>
svcVars == <<apiKey, isAvailable>>
uiVars  == <<langSource, displayLang, rendered, ariaExpanded>>
chatVars == <<isTyping, aiMode, autoSave, sends, settings, notice>>
vars    == <<aiVars, genVars, bpVars, trVars, svcVars, uiVars, chatVars>>

\* A value no operation returns: "not computed yet".
Unset == "<unset>"
\* JavaScript null and undefined; no string of the model looks like them.
Null == "<null>"
Undefined == "<undefined>"
\* lastSectionsSource before any blueprint is built: a record, as section maps are
NotBuilt == [built |-> FALSE]
\* splitIntoSentences has not been called: a list no text is split into
NotSplit == <<"<unset>">>
\* The blueprint container is hidden and empty
Hidden == [view |-> "hidden"]
\* The blueprint container shows the "Translating notes..." placeholder
Translating == [view |-> "translating"]
\* showMessage has displayed nothing
NoNotice == [type |-> "none"]
\* No call of generateResponse has been made
GenNone == [state |-> "none"]

-----------------------------------------------------------------------------
(* JavaScript string primitives *)

CharAt(s, i) == SubSeq(s, i, i)

\* String.prototype.includes
Includes(s, sub) ==
  \E i \in 1..(Len(s) - Len(sub) + 1) : SubSeq(s, i, i + Len(sub) - 1) = sub

UpperToLower ==
  [A |-> "a", B |-> "b", C |-> "c", D |-> "d", E |-> "e", F |-> "f", G |-> "g",
   H |-> "h", I |-> "i", J |-> "j", K |-> "k", L |-> "l", M |-> "m", N |-> "n",
   O |-> "o", P |-> "p", Q |-> "q", R |-> "r", S |-> "s", T |-> "t", U |-> "u",
   V |-> "v", W |-> "w", X |-> "x", Y |-> "y", Z |-> "z"]

RECURSIVE ToLowerCase(_)
\* String.prototype.toLowerCase
ToLowerCase(s) ==
  IF s = "" THEN ""
  ELSE LET c == CharAt(s, 1)
       IN (IF c \in DOMAIN UpperToLower THEN UpperToLower[c] ELSE c)
            \o ToLowerCase(SubSeq(s, 2, Len(s)))

\* The regular expression class \w
WordChars ==
  {"a","b","c","d","e","f","g","h","i","j","k","l","m","n","o","p","q","r","s","t",
   "u","v","w","x","y","z","0","1","2","3","4","5","6","7","8","9","_"}
    \cup DOMAIN UpperToLower

IsWordAt(s, i) == i >= 1 /\ i <= Len(s) /\ CharAt(s, i) \in WordChars

\* The assertion \b between s[i] and s[i+1] (i = 0: before the first character)
WordBoundary(s, i) == IsWordAt(s, i) # IsWordAt(s, i + 1)

\* Faulty variant: the pattern has no \b, typo matches inside words too
WordMatchAtNoBoundary(s, typo, i) ==
  /\ i + Len(typo) - 1 <= Len(s)
  /\ SubSeq(s, i, i + Len(typo) - 1) = typo

\* Whether /\btypo\b/ matches s at position i
WordMatchAt(s, typo, i) ==
  /\ i + Len(typo) - 1 <= Len(s)
  /\ SubSeq(s, i, i + Len(typo) - 1) = typo
  /\ WordBoundary(s, i - 1)
  /\ WordBoundary(s, i + Len(typo) - 1)

RECURSIVE ReplaceWord(_, _, _, _)
\* s.replace(new RegExp('\\b' + typo + '\\b', 'g'), correction), scanning from i:
\* the leftmost match at or after i is replaced and the scan resumes behind it.
ReplaceWord(s, typo, correction, i) ==
  LET hits == {p \in i..Len(s) : WordMatchAt(s, typo, p)}
  IN IF hits = {} THEN SubSeq(s, i, Len(s))
     ELSE LET p == CHOOSE h \in hits : \A g \in hits : h <= g
          IN SubSeq(s, i, p - 1) \o correction
               \o ReplaceWord(s, typo, correction, p + Len(typo))

Min(a, b) == IF a <= b THEN a ELSE b
Max(a, b) == IF a >= b THEN a ELSE b

-----------------------------------------------------------------------------
(* Bounds of the model *)

\* Words a typed message is made of, and how many of them
MaxWords == 2
\* How often the normalizer is re-applied to its own output
MaxPre == 2
\* Resolution of the random source: Math.random() is r / RandomSteps
RandomSteps == 8
\* Longest text splitIntoSentences is tried on, in characters
MaxTextLen == 4
\* Longest conversation, in messages
MaxMessages == 3
\* Most calls of maybeTranslateSections in one behaviour
MaxCalls == 2


-----------------------------------------------------------------------------
(* AIService: tables *)

topicKeywords ==
  << [topic |-> "greeting", keywords |-> <<
        "hello", "hi", "hey", "hola", "que tal", "como estas", "how are you", "whats up",
        "sup", "good morning", "good afternoon", "good evening", "buenos dias",
        "buenas tardes", "buenas noches", "hii", "hiii", "heyy", "heyyy", "holaa", "holaaa",
        "hey there", "hi there", "hello there" >>],
     [topic |-> "name", keywords |-> <<
        "your name", "what are you", "who are you", "introduce yourself", "name", "who",
        "call", "identify", "nam", "ho", "cal", "identif", "what is your name",
        "whats your name", "whats ur name", "what is ur name", "tell me your name",
        "who are u", "what are u" >>],
     [topic |-> "location", keywords |-> <<
        "where do you", "where are you", "where do you live", "where do you spend",
        "where in the arctic", "where", "live", "home", "place", "location", "spend time",
        "from", "located", "territory", "wer", "liv", "hom", "plac", "locat", "territor" >>],
     [topic |-> "food", keywords |-> <<
        "favorite food", "what do you eat", "what do you hunt", "what do you like to eat",
        "food", "eat", "hunt", "hunting", "meal", "diet", "seal", "prey", "consume", "favort",
        "foood", "eet", "hnt", "huntng", "meel", "diet", "seel", "prey", "consume" >>],
     [topic |-> "skills", keywords |-> <<
        "special skills", "how do you survive", "what skills", "survival skills", "skill",
        "survive", "cold", "ability", "how", "can", "survival", "special", "help",
        "capabilities", "specil", "skils", "survive", "abilty", "hel", "capabilites" >>],
     [topic |-> "problems", keywords |-> <<
        "biggest problem", "what problems", "what challenges", "problem", "challenge",
        "difficult", "worry", "concern", "issue", "trouble", "biggest", "hardest", "struggle",
        "problm", "chalenge", "difcult", "worr", "concer", "issu", "troubl", "hardst", "struggl" >>],
     [topic |-> "message", keywords |-> <<
        "one thing you want", "what do you want humans", "what should humans know",
        "message to humans", "know", "tell", "message", "human", "want", "understand", "say",
        "humans", "share", "mesage", "humans", "wan", "understan", "shar" >>],
     [topic |-> "future", keywords |-> <<
        "what do you hope", "what do you dream", "future arctic", "future", "hope", "dream",
        "wish", "tomorrow", "coming", "ahead", "looks like", "will be", "vision", "hop",
        "drem", "wish", "tomorow", "comng", "ahed", "visin" >>],
     [topic |-> "math", keywords |-> <<
        "math", "mathematics", "calculate", "calculation", "add", "subtract", "multiply",
        "divide", "plus", "minus", "times", "equals", "number", "numbers", "count", "counting",
        "sum", "total", "maths", "calcular", "sumar", "restar", "multiplicar", "dividir",
        "mas", "menos", "por", "igual", "numero", "numeros", "contar", "suma", "total" >>],
     [topic |-> "cooking", keywords |-> <<
        "cook", "cooking", "recipe", "food", "ingredients", "kitchen", "bake", "fry", "boil",
        "cocinar", "receta", "ingredientes", "cocina", "hornear", "freir", "hervir", "cocina" >>],
     [topic |-> "weather", keywords |-> <<
        "weather", "climate", "temperature", "rain", "snow", "sunny", "cloudy", "windy",
        "clima", "temperatura", "lluvia", "nieve", "soleado", "nublado", "ventoso" >>],
     [topic |-> "technology", keywords |-> <<
        "computer", "phone", "internet", "software", "app", "programming", "code",
        "computadora", "telefono", "programacion", "codigo", "aplicacion" >>],
     [topic |-> "general", keywords |-> <<
        "what is", "how do", "why", "when", "where", "que es", "como", "por que", "cuando",
        "donde", "explain", "tell me about", "explica", "cuentame sobre" >>] >>

corrections ==
  <<
    <<"wat", "what">>, <<"wht", "what">>, <<"whts", "whats">>, <<"u", "you">>,
    <<"ur", "your">>, <<"r", "are">>, <<"n", "and">>, <<"thnks", "thanks">>,
    <<"thx", "thanks">>, <<"pls", "please">>, <<"plz", "please">>, <<"frm", "from">>,
    <<"liv", "live">>, <<"livng", "living">>, <<"eet", "eat">>, <<"eeting", "eating">>,
    <<"hnt", "hunt">>, <<"hnting", "hunting">>, <<"skil", "skill">>, <<"skils", "skills">>,
    <<"problm", "problem">>, <<"problms", "problems">>, <<"chalenge", "challenge">>,
    <<"chalenges", "challenges">>, <<"difcult", "difficult">>, <<"mesage", "message">>,
    <<"mesages", "messages">>, <<"undrstand", "understand">>,
    <<"undrstanding", "understanding">>, <<"capabilites", "capabilities">>,
    <<"abilty", "ability">>, <<"abilties", "abilities">>, <<"territor", "territory">>,
    <<"territores", "territories">>, <<"locat", "locate">>, <<"locaton", "location">>,
    <<"locatons", "locations">>, <<"hom", "home">>, <<"homes", "homes">>, <<"plac", "place">>,
    <<"places", "places">>, <<"nam", "name">>, <<"nams", "names">>, <<"nime", "name">>,
    <<"nimes", "names">>, <<"ho", "who">>, <<"cal", "call">>, <<"caling", "calling">>,
    <<"identif", "identify">>, <<"identifing", "identifying">>, <<"favort", "favorite">>,
    <<"favortes", "favorites">>, <<"foood", "food">>, <<"meel", "meal">>, <<"meels", "meals">>,
    <<"seel", "seal">>, <<"seels", "seals">>, <<"prey", "prey">>, <<"preys", "preys">>,
    <<"consume", "consume">>, <<"consuming", "consuming">>, <<"specil", "special">>,
    <<"specials", "specials">>, <<"hel", "help">>, <<"helping", "helping">>,
    <<"worr", "worry">>, <<"worring", "worrying">>, <<"concer", "concern">>,
    <<"concerning", "concerning">>, <<"issu", "issue">>, <<"issues", "issues">>,
    <<"troubl", "trouble">>, <<"troubles", "troubles">>, <<"hardst", "hardest">>,
    <<"struggl", "struggle">>, <<"struggling", "struggling">>, <<"wan", "want">>,
    <<"wanting", "wanting">>, <<"shar", "share">>, <<"sharing", "sharing">>, <<"hop", "hope">>,
    <<"hoping", "hoping">>, <<"drem", "dream">>, <<"dreaming", "dreaming">>,
    <<"tomorow", "tomorrow">>, <<"comng", "coming">>, <<"ahed", "ahead">>,
    <<"visin", "vision">>, <<"visions", "visions">>
  >>
spanishResponses ==
  [ greeting |-> <<
        "~Hola! ~Qu~ gusto conocerte! Soy Polar ~ ~C~mo est~s hoy?",
        "~Hola! Me da mucho gusto charlar contigo. Soy Polar, tu oso polar amigable ~",
        "~Qu~ tal! Soy Polar ~ ~En qu~ puedo ayudarte hoy?",
        "~Hola! ~Encantado de conocerte! Soy Polar, siempre listo para una buena conversaci~n ~",
        "~Hola! Soy Polar ~ ~Qu~ te gustar~a platicar hoy?" >>,
    name |-> <<
        "~Soy Polar! Encantado de conocerte en esta tundra digital. ~",
        "Me llamo Polar: tu oso amistoso del lejano norte. ~",
        "~Hola! Soy Polar, tu compa~ero ~rtico y gu~a de ingreso. ~",
        "Soy Polar, un oso polar al que le encanta ayudar con ingresos. ~",
        "~Polar aqu~! Me encanta compartir sobre la vida en el ~rtico. ~" >>,
    location |-> <<
        "Deambulo por el hielo marino en Svalbard y el norte de Canad~. ~",
        "Me encontrar~s cazando sobre el hielo cerca de Groenlandia y el ~rtico canadiense. ~",
        "Paso mis d~as en mares helados entre Alaska y Rusia, siguiendo a las focas. ~",
        "Mi territorio abarca el Oc~ano ~rtico, del Mar de Beaufort al Mar de Barents. ~",
        "Patrullo t~mpanos alrededor del Polo Norte y aguas ~rticas cercanas. ~" >>,
    food |-> <<
        "Mis favoritas son las focas anilladas: mucha energ~a para el invierno. ~",
        "Me encanta cazar focas barbudas en los t~mpanos: ~todo un reto! ~",
        "La grasa de foca es mi base: me da la energ~a para sobrevivir. ~",
        "Cazo sobre todo focas anilladas y barbudas, a veces morsa o beluga. ~",
        "Mi dieta es alta en grasa gracias a las focas: clave en el ~rtico. ~" >>,
    skills |-> <<
        "Mi gruesa capa y grasa me abrigan; puedo nadar horas en agua helada. ~",
        "Tengo paciencia: espero junto a agujeros de respiraci~n de focas. ~",
        "Garras potentes para romper hielo y un olfato que detecta a kil~metros. ~",
        "Nado hasta 100 km sin parar y veo bien bajo el agua al cazar. ~",
        "Mis grandes patas son como raquetas; puedo correr hasta 40 km/h sobre hielo. ~" >>,
    problems |-> <<
        "El hielo se derrite m~s r~pido; cazar y viajar es m~s dif~cil. ~",
        "El cambio clim~tico reduce mis zonas de caza; nado distancias mayores. ~",
        "El hielo tarda m~s en formarse y se rompe antes; menos tiempo para engordar. ~",
        "La contaminaci~n y perforaci~n amenazan nuestro entorno de caza. ~",
        "El deshielo del permafrost afecta rutas tradicionales. ~" >>,
    message |-> <<
        "Ayuda a proteger nuestro hogar ~rtico; toda acci~n clim~tica cuenta. ~",
        "El hielo es mi mundo entero: necesitamos mantenerlo congelado. ~",
        "Tus decisiones importan; reducir emisiones preserva el ~rtico. ~",
        "El ~rtico se calienta el doble de r~pido; necesitamos que se entienda. ~",
        "Apoya la conservaci~n: somos s~mbolo de lo que se pierde con el clima. ~" >>,
    future |-> <<
        "Espero un ~rtico con hielo estable y muchas focas para cazar. ~",
        "Sue~o con humanos y osos trabajando juntos por el planeta. ~",
        "Quiero ver hielo marino sano en todas las estaciones. ~",
        "Deseo que la acci~n clim~tica preserve el ecosistema ~rtico. ~",
        "Imagino un ~rtico sostenible para fauna y comunidades humanas. ~" >>,
    math |-> <<
        "~Las matem~ticas son geniales! Puedo ayudarte con c~lculos b~sicos. ~Qu~ necesitas resolver? ~",
        "Me encantan los n~meros! Soy bueno con sumas, restas, multiplicaciones y divisiones. ~Qu~ quieres calcular? ~",
        "~Las matem~ticas son ~tiles incluso en el ~rtico! ~En qu~ puedo ayudarte? ~",
        "Soy bueno con los n~meros! ~Qu~ operaci~n matem~tica necesitas? ~",
        "~Las matem~ticas me ayudan a contar focas! ~Qu~ quieres calcular? ~" >>,
    cooking |-> <<
        "~Me encanta hablar de comida! Aunque yo cazo focas, puedo ayudarte con recetas humanas. ~Qu~ quieres cocinar? ~",
        "~La cocina es genial! Puedo darte consejos b~sicos de cocina. ~Qu~ necesitas saber? ~",
        "Aunque soy carn~voro, entiendo de cocina! ~Qu~ receta te interesa? ~",
        "~Cocinar es un arte! ~En qu~ puedo ayudarte en la cocina? ~",
        "Me gusta hablar de comida! ~Qu~ quieres preparar? ~" >>,
    weather |-> <<
        "~El clima es mi especialidad! Vivo en el lugar m~s fr~o del planeta. ~Qu~ quieres saber del clima? ~",
        "~Soy experto en clima fr~o! ~Tienes preguntas sobre el tiempo? ~",
        "~El clima ~rtico es mi vida! ~Qu~ te interesa saber? ~",
        "~Conozco mucho sobre clima! ~En qu~ puedo ayudarte? ~",
        "~El clima es fascinante! ~Qu~ quieres saber? ~" >>,
    technology |-> <<
        "~La tecnolog~a es genial! Aunque vivo en el ~rtico, entiendo de computadoras y apps. ~Qu~ necesitas saber? ~",
        "~Me gusta la tecnolog~a! Puedo ayudarte con conceptos b~sicos. ~Qu~ te interesa? ~",
        "~La tecnolog~a conecta el mundo! ~En qu~ puedo ayudarte? ~",
        "~Soy un oso polar moderno! ~Qu~ quieres saber sobre tecnolog~a? ~",
        "~La tecnolog~a es incre~ble! ~Qu~ necesitas entender? ~" >>,
    general |-> <<
        "~Excelente pregunta! Aunque soy un oso polar, puedo ayudarte con muchas cosas. ~Qu~ m~s quieres saber? ~",
        "~Me gusta aprender! ~Puedes ser m~s espec~fico para ayudarte mejor? ~",
        "~Interesante! ~Podr~as darme m~s detalles para darte una mejor respuesta? ~",
        "~Buena pregunta! ~En qu~ aspecto espec~fico te puedo ayudar? ~",
        "~Me encanta ayudar! ~Puedes explicarme m~s sobre lo que necesitas? ~" >> ]

fallbackResponses ==
  [ greeting |-> <<
        "Hello there! Nice to meet you! I'm Polar ~ How are you doing today?",
        "Hi! Great to see you! I'm Polar, your friendly polar bear ~",
        "Hey! I'm Polar ~ What can I help you with today?",
        "Hello! Nice to meet you! I'm Polar, always up for a good chat ~",
        "Hi! I'm Polar ~ What would you like to talk about today?" >>,
    name |-> <<
        "I'm Polar! Nice to meet you in this digital Arctic tundra. ~",
        "Polar's the name - I'm your friendly bear from the far north! ~",
        "Hey there! I'm Polar, your Arctic companion and intake specialist. ~",
        "I'm Polar, a polar bear who loves helping with Arctic intake processes! ~",
        "Polar here! I'm always excited to share about life in the Arctic. ~" >>,
    location |-> <<
        "I roam the sea ice around Svalbard and northern Canada - where the ice meets the ocean! ~",
        "You'll find me hunting on the pack ice near Greenland and the Canadian Arctic islands. ~",
        "I spend my days on the frozen seas between Alaska and Russia, following the seals. ~",
        "My territory spans the Arctic Ocean, from the Beaufort Sea to the Barents Sea! ~",
        "I patrol the ice floes around the North Pole and surrounding Arctic waters. ~" >>,
    food |-> <<
        "Ringed seals are my favorite - they're rich and keep me going through the long winter! ~",
        "I love hunting bearded seals on the ice floes - they're bigger and more challenging to catch. ~",
        "Seal blubber is my main meal - it gives me the energy I need to survive the harsh Arctic. ~",
        "I primarily hunt ringed and bearded seals, but I'll also eat walrus and beluga when available! ~",
        "My diet consists mainly of seals, which provide the high-fat content I need for Arctic survival. ~" >>,
    skills |-> <<
        "My thick fur and fat layer keep me warm, and I can swim for hours in freezing water! ~",
        "I've got incredible patience for hunting - I'll wait by a seal's breathing hole for hours. ~",
        "My powerful claws help me break through ice, and my keen sense of smell finds seals from miles away! ~",
        "I can swim up to 60 miles without rest and have excellent underwater vision for hunting. ~",
        "My large paws act like snowshoes, and I can run up to 25 mph on ice when needed! ~" >>,
    problems |-> <<
        "The sea ice is melting faster each year, making it harder to hunt and travel. ~",
        "Climate change is shrinking my hunting grounds - I have to swim longer distances to find food. ~",
        "The ice is forming later and breaking up earlier, giving me less time to build up fat for winter. ~",
        "Pollution and oil drilling in the Arctic are threatening our pristine hunting environment. ~",
        "Rising temperatures are causing the permafrost to melt, affecting our traditional migration routes. ~" >>,
    message |-> <<
        "Please help protect our Arctic home - every action against climate change helps us survive! ~",
        "The ice isn't just my hunting ground, it's my entire world - we need to keep it frozen. ~",
        "Your choices matter to us - reducing emissions helps preserve the Arctic we both love. ~",
        "We need humans to understand that the Arctic is warming twice as fast as the rest of the planet. ~",
        "Please support conservation efforts - polar bears are a symbol of what we're losing to climate change. ~" >>,
    future |-> <<
        "I hope the Arctic stays frozen year-round, with plenty of seals and stable ice for hunting! ~",
        "I dream of a future where polar bears and humans work together to protect our shared planet. ~",
        "I want to see healthy sea ice that lasts through all seasons, supporting all Arctic life. ~",
        "I hope for a future where climate action preserves the Arctic ecosystem for generations to come. ~",
        "I envision an Arctic where sustainable practices allow both wildlife and human communities to thrive! ~" >>,
    math |-> <<
        "Math is awesome! I can help you with basic calculations. What do you need to solve? ~",
        "I love numbers! I'm good with addition, subtraction, multiplication, and division. What do you want to calculate? ~",
        "Math is useful even in the Arctic! How can I help you? ~",
        "I'm good with numbers! What math operation do you need? ~",
        "Math helps me count seals! What do you want to calculate? ~" >>,
    cooking |-> <<
        "I love talking about food! Though I hunt seals, I can help you with human recipes. What do you want to cook? ~",
        "Cooking is great! I can give you basic cooking tips. What do you need to know? ~",
        "Though I'm a carnivore, I understand cooking! What recipe interests you? ~",
        "Cooking is an art! How can I help you in the kitchen? ~",
        "I like talking about food! What do you want to prepare? ~" >>,
    weather |-> <<
        "Weather is my specialty! I live in the coldest place on Earth. What do you want to know about weather? ~",
        "I'm an expert in cold weather! Do you have questions about the weather? ~",
        "Arctic weather is my life! What interests you? ~",
        "I know a lot about weather! How can I help you? ~",
        "Weather is fascinating! What do you want to know? ~" >>,
    technology |-> <<
        "Technology is awesome! Though I live in the Arctic, I understand computers and apps. What do you need to know? ~",
        "I like technology! I can help you with basic concepts. What interests you? ~",
        "Technology connects the world! How can I help you? ~",
        "I'm a modern polar bear! What do you want to know about technology? ~",
        "Technology is incredible! What do you need to understand? ~" >>,
    general |-> <<
        "Great question! Though I'm a polar bear, I can help you with many things. What else do you want to know? ~",
        "I love learning! Can you be more specific so I can help you better? ~",
        "Interesting! Could you give me more details to give you a better answer? ~",
        "Good question! In what specific area can I help you? ~",
        "I love helping! Can you explain more about what you need? ~" >> ]

generalEs ==
  <<
    "~Hola! ~Qu~ gusto conocerte! Soy Polar ~ ~C~mo est~s hoy?",
    "~Hola! Me da mucho gusto charlar contigo. Soy Polar, tu oso polar amigable ~",
    "~Qu~ tal! Soy Polar ~ ~En qu~ puedo ayudarte hoy?",
    "~Hola! ~Encantado de conocerte! Soy Polar, siempre listo para una buena conversaci~n ~",
    "~Hola! Soy Polar ~ ~Qu~ te gustar~a platicar hoy?",
    "~Hola! Soy Polar, tu oso polar inteligente ~ ~Sobre qu~ te gustar~a hablar?",
    "~Qu~ gusto verte! Soy Polar, puedo ayudarte con cualquier pregunta ~",
    "~Hola! Soy Polar, siempre dispuesto a charlar sobre lo que quieras ~"
  >>

generalEn ==
  <<
    "Hello there! Nice to meet you! I'm Polar ~ How are you doing today?",
    "Hi! Great to see you! I'm Polar, your friendly polar bear ~",
    "Hey! I'm Polar ~ What can I help you with today?",
    "Hello! Nice to meet you! I'm Polar, always up for a good chat ~",
    "Hi! I'm Polar ~ What would you like to talk about today?",
    "Hello! I'm Polar, your intelligent polar bear ~ What would you like to discuss?",
    "Nice to see you! I'm Polar, happy to help with any questions ~",
    "Hi! I'm Polar, always ready to chat about whatever you'd like ~"
  >>

-----------------------------------------------------------------------------
(* AIService: normalizer and classifier *)

RECURSIVE ApplyCorrections(_, _)
\* for (const [typo, correction] of Object.entries(corrections)) ..., from entry k
\* on; an empty string has nothing left to replace.
ApplyCorrections(processed, k) ==
  IF processed = "" \/ k > Len(corrections) THEN processed
  ELSE ApplyCorrections(
         ReplaceWord(processed, corrections[k][1], corrections[k][2], 1), k + 1)

\* Faulty variant: the loop over the corrections starts one entry late
preprocessMessageSkipsFirst(msg) == ApplyCorrections(ToLowerCase(msg), 2)

preprocessMessage(msg) == ApplyCorrections(ToLowerCase(msg), 1)

RECURSIVE LevRowSubstitutionTwo(_, _, _, _)
\* Faulty variant: a substitution costs 2, as a deletion and an insertion
LevRowSubstitutionTwo(prev, ch2, str1, row) ==
  IF Len(row) > Len(str1) THEN row
  ELSE LET j == Len(row)
       IN LevRowSubstitutionTwo(prev, ch2, str1,
            Append(row,
              IF ch2 = CharAt(str1, j)
              THEN prev[j]
              ELSE Min(prev[j] + 2, Min(row[j] + 1, prev[j + 1] + 1))))

RECURSIVE LevRow(_, _, _, _)
\* Row i of the matrix, filled left to right: row holds matrix[i][0..j-1] and
\* prev is matrix[i-1]; ch2 is str2.charAt(i - 1).
LevRow(prev, ch2, str1, row) ==
  IF Len(row) > Len(str1) THEN row
  ELSE LET j == Len(row)
       IN LevRow(prev, ch2, str1,
            Append(row,
              IF ch2 = CharAt(str1, j)
              THEN prev[j]
              ELSE Min(prev[j] + 1, Min(row[j] + 1, prev[j + 1] + 1))))

RECURSIVE LevMatrix(_, _, _)
\* matrix holds the rows 0..i-1; matrix[0][j] = j and matrix[i][0] = i.
LevMatrix(matrix, str1, str2) ==
  IF Len(matrix) > Len(str2) THEN matrix
  ELSE LET i == Len(matrix)
       IN LevMatrix(
            Append(matrix, LevRow(matrix[i], CharAt(str2, i), str1, <<i>>)),
            str1, str2)

levenshteinDistance(str1, str2) ==
  LevMatrix(<<[j \in 1..(Len(str1) + 1) |-> j - 1]>>, str1, str2)
    [Len(str2) + 1][Len(str1) + 1]

\* fuzzyMatch's default threshold 0.6, in tenths
FuzzyThresholdTenths == 6

\* Faulty variant: threshold 0.5 instead of 0.6
fuzzyMatchLoose(str1, str2) ==
  LET distance  == levenshteinDistance(ToLowerCase(str1), ToLowerCase(str2))
      maxLength == Max(Len(str1), Len(str2))
  IN maxLength > 0 /\ 10 * (maxLength - distance) >= 5 * maxLength

\* similarity = 1 - distance / maxLength >= 0.6, in integers; 0/0 is NaN,
\* and NaN >= 0.6 is false.
fuzzyMatch(str1, str2) ==
  LET distance  == levenshteinDistance(ToLowerCase(str1), ToLowerCase(str2))
      maxLength == Max(Len(str1), Len(str2))
  IN maxLength > 0 /\ 10 * (maxLength - distance) >= FuzzyThresholdTenths * maxLength

RECURSIVE SortFrom(_, _)
\* keywords.sort((a, b) => b.length - a.length): stable, longest first
SortFrom(kws, n) ==
  IF n = 0 THEN <<>>
  ELSE SelectSeq(kws, LAMBDA k : Len(k) = n) \o SortFrom(kws, n - 1)

RECURSIVE MaxLen(_)
MaxLen(kws) == IF kws = <<>> THEN 0 ELSE Max(Len(Head(kws)), MaxLen(Tail(kws)))

sortedKeywords(kws) == SortFrom(kws, MaxLen(kws))

\* topicKeywords after the exact pass has sorted every topic's list in place
sortedTable ==
  [t \in 1..Len(topicKeywords) |->
     [topic |-> topicKeywords[t].topic,
      keywords |-> sortedKeywords(topicKeywords[t].keywords)]]

\* No topic: what a pass yields when it runs through without returning
NoMatch == [topic |-> Null, pass |-> "none", keyword |-> Null]

RECURSIVE FirstIncluded(_, _, _)
\* for (const keyword of sortedKeywords) if (input.includes(keyword)) ...
FirstIncluded(in, kws, k) ==
  IF k > Len(kws) THEN 0
  ELSE IF Includes(in, kws[k]) THEN k
  ELSE FirstIncluded(in, kws, k + 1)

RECURSIVE exactPassLast(_, _)
\* Faulty variant: the last matching topic wins instead of the first
exactPassLast(in, t) ==
  IF t > Len(sortedTable) THEN NoMatch
  ELSE LET later == exactPassLast(in, t + 1)
           k == FirstIncluded(in, sortedTable[t].keywords, 1)
       IN IF later.topic # Null THEN later
          ELSE IF k > 0
               THEN [topic |-> sortedTable[t].topic, pass |-> "exact",
                     keyword |-> sortedTable[t].keywords[k]]
               ELSE NoMatch

RECURSIVE exactPassLongestKeyword(_, _)
\* Faulty variant: the longest keyword found in any topic decides, as if the
\* keywords of all topics were sorted together
exactPassLongestKeyword(in, t) ==
  IF t > Len(sortedTable) THEN NoMatch
  ELSE LET later == exactPassLongestKeyword(in, t + 1)
           k == FirstIncluded(in, sortedTable[t].keywords, 1)
       IN IF k = 0 THEN later
          ELSE IF later.topic # Null
                  /\ Len(later.keyword) > Len(sortedTable[t].keywords[k])
               THEN later
               ELSE [topic |-> sortedTable[t].topic, pass |-> "exact",
                     keyword |-> sortedTable[t].keywords[k]]

RECURSIVE exactPass(_, _)
\* The first loop of detectTopic, from topic number t on
exactPass(in, t) ==
  IF t > Len(sortedTable) THEN NoMatch
  ELSE LET k == FirstIncluded(in, sortedTable[t].keywords, 1)
       IN IF k > 0
          THEN [topic |-> sortedTable[t].topic, pass |-> "exact",
                keyword |-> sortedTable[t].keywords[k]]
          ELSE exactPass(in, t + 1)

specialPattern(in) ==
  \/ Includes(in, "what is your") \/ Includes(in, "whats your")
  \/ Includes(in, "what is ur")   \/ Includes(in, "whats ur")

RECURSIVE FirstFuzzy(_, _, _)
FirstFuzzy(in, kws, k) ==
  IF k > Len(kws) THEN 0
  ELSE IF fuzzyMatch(in, kws[k]) THEN k
  ELSE FirstFuzzy(in, kws, k + 1)

RECURSIVE fuzzyPass(_, _)
\* The second loop of detectTopic, from topic number t on
fuzzyPass(in, t) ==
  IF t > Len(sortedTable) THEN NoMatch
  ELSE LET k == FirstFuzzy(in, sortedTable[t].keywords, 1)
       IN IF k > 0
          THEN [topic |-> sortedTable[t].topic, pass |-> "fuzzy",
                keyword |-> sortedTable[t].keywords[k]]
          ELSE fuzzyPass(in, t + 1)

\* Faulty variant: the hard-mapped phrases are tested before the exact pass
detectTopicSpecialFirst(in) ==
  IF specialPattern(in)
  THEN [topic |-> "name", pass |-> "special", keyword |-> Null]
  ELSE LET exact == exactPass(in, 1)
       IN IF exact.topic # Null THEN exact
          ELSE LET fuzzy == fuzzyPass(in, 1)
               IN IF fuzzy.topic # Null THEN fuzzy ELSE NoMatch

\* detectTopic with the pass and keyword that decided
detectTopicTrace(in) ==
  LET exact == exactPass(in, 1)
  IN IF exact.topic # Null THEN exact
     ELSE IF specialPattern(in)
          THEN [topic |-> "name", pass |-> "special", keyword |-> Null]
     ELSE LET fuzzy == fuzzyPass(in, 1)
          IN IF fuzzy.topic # Null THEN fuzzy ELSE NoMatch

detectTopic(in) == detectTopicTrace(in).topic

-----------------------------------------------------------------------------
(* AIService: fallback responder *)

\* a || b for strings and null
OrElse(a, b) == IF a = Null \/ a = "" THEN b ELSE a

\* getLang: stored is localStorage's 'polar.lang', docLang the lang attribute of
\* the document element; throws: localStorage.getItem raises.
getLang(stored, docLang, throws) ==
  IF throws THEN ToLowerCase(OrElse(docLang, "en"))
  ELSE ToLowerCase(OrElse(stored, OrElse(docLang, "en")))

\* BlueprintGenerator.getCurrentLanguage(), attr being what
\* document.documentElement.getAttribute('lang') returns
getCurrentLanguage(stored, attr, throws) ==
  IF throws THEN ToLowerCase(OrElse(attr, "en"))
  ELSE ToLowerCase(OrElse(stored, OrElse(attr, "en")))

\* Faulty variant: Math.ceil instead of Math.floor
RandomPickCeil(list, r) ==
  LET index == (r * Len(list) + RandomSteps - 1) \div RandomSteps
  IN IF index + 1 \in DOMAIN list THEN list[index + 1] ELSE Undefined

\* list[Math.floor(Math.random() * list.length)], Math.random() being r / RandomSteps
RandomPick(list, r) ==
  LET index == (r * Len(list)) \div RandomSteps
  IN IF index + 1 \in DOMAIN list THEN list[index + 1] ELSE Undefined

\* Faulty variant: the Spanish pool of the topic is used whatever the language
selectResponseSpanishFirst(tp, lng, r) ==
  IF tp # Null /\ tp \in DOMAIN spanishResponses
  THEN RandomPick(spanishResponses[tp], r)
  ELSE IF tp # Null /\ tp \in DOMAIN fallbackResponses
  THEN RandomPick(fallbackResponses[tp], r)
  ELSE RandomPick(IF lng = "es" THEN generalEs ELSE generalEn, r)

\* The selection of getFallbackResponse, once the language lng and the topic tp
\* are known
selectResponse(tp, lng, r) ==
  IF lng = "es" /\ tp # Null /\ tp \in DOMAIN spanishResponses
  THEN RandomPick(spanishResponses[tp], r)
  ELSE IF tp # Null /\ tp \in DOMAIN fallbackResponses
  THEN RandomPick(fallbackResponses[tp], r)
  ELSE RandomPick(IF lng = "es" THEN generalEs ELSE generalEn, r)

\* getFallbackResponse with the value of getLang() and the random draw made explicit
getFallbackResponse(userMessage, lng, r) ==
  selectResponse(detectTopic(preprocessMessage(userMessage)), lng, r)
keywords ==
  << [section |-> "identity", terms |-> <<
        "your name", "name", "who are you", "who are u", "who are", "introduce", "identity",
        "co^mo te llamas", "como te llamas", "nombre", "quie^n eres", "quien eres", "te llamas" >>],
     [section |-> "habitat", terms |-> <<
        "where do you live", "where are you", "where in the arctic", "where", "live", "home",
        "location", "habitat", "territory", "sea ice", "ice floes", "north", "arctic",
        "do^nde vives", "donde vives", "vives", "hogar", "lugar", "ha^bitat", "habitat",
        "territorio", "a^rtico", "artico", "hielo" >>],
     [section |-> "diet", terms |-> <<
        "what do you eat", "eat", "food", "diet", "meal", "hunt", "hunting", "prey", "seal",
        "seals", "blubber", "fish", "que^ comes", "que comes", "comes", "comer", "comida",
        "dieta", "cazar", "caza", "presa", "presas", "foca", "focas" >>],
     [section |-> "skills", terms |-> <<
        "skills", "special skills", "survive", "survival", "adapt", "adaptation",
        "adaptations", "ability", "abilities", "fur", "swim", "paws", "claws", "smell", "run",
        "fast", "strong", "habilidades", "especiales", "sobrevives", "sobrevivir",
        "adaptaciones", "adaptacio^n", "adaptacion", "capacidad", "capacidades", "pelaje",
        "nadar", "patas", "garras", "olfato", "correr" >>],
     [section |-> "challenges", terms |-> <<
        "biggest problem", "what problems", "what challenges", "problem", "problems",
        "challenge", "challenges", "difficult", "concern", "issue", "trouble", "hardest",
        "struggle", "melting", "climate change", "warming", "ice is", "sea ice",
        "mayor problema", "problema", "problemas", "desafi^o", "desafios", "desafi^o",
        "desafi^os", "dificultad", "preocupacio^n", "preocupaciones", "calentamiento",
        "cambio clima^tico", "cambio climatico", "deshielo", "hielo" >>],
     [section |-> "message", terms |-> <<
        "message to humans", "what should humans know", "what do you want humans",
        "humans should", "tell humans", "message", "humans", "people should",
        "mensaje a los humanos", "mensaje para los humanos", "humanos deben",
        "que^ quieres que los humanos", "que quieres que los humanos", "mensaje", "humanos" >>],
     [section |-> "future", terms |-> <<
        "what do you hope", "hope", "dream", "future", "vision", "wish", "tomorrow", "ahead",
        "futuro", "esperas", "esperanza", "suen~as", "suen~os", "suen~os", "suen~o", "deseas",
        "deseo", "man~ana" >>] >>

-----------------------------------------------------------------------------
(* BlueprintGenerator: sentence extraction *)

\* this.maxItemsPerSection
maxItemsPerSection == 3

\* this.sectionsOrder, and the keys of the object buildSections fills
sectionsOrder ==
  <<"identity", "habitat", "diet", "skills", "challenges", "message", "future">>

\* The regular expression class \s, as far as the model's texts go
WhiteSpace == {" ", "\t", "\n"}
\* The class [.!?]
Delimiters == {".", "!", "?"}

\* The last position of the run of characters in (inSet = TRUE) or outside
\* (inSet = FALSE) the class cls that starts at position i of s
RunEnd(s, i, cls, inSet) ==
  LET stops == {p \in i..Len(s) : (CharAt(s, p) \in cls) # inSet}
  IN IF stops = {} THEN Len(s)
     ELSE (CHOOSE p \in stops : \A q \in stops : p <= q) - 1

RECURSIVE CollapseWhiteSpace(_, _)
\* s.replace(/\s+/g, ' '), scanning from i
CollapseWhiteSpace(s, i) ==
  IF i > Len(s) THEN ""
  ELSE IF CharAt(s, i) \in WhiteSpace
       THEN " " \o CollapseWhiteSpace(s, RunEnd(s, i, WhiteSpace, TRUE) + 1)
       ELSE LET e == RunEnd(s, i, WhiteSpace, FALSE)
            IN SubSeq(s, i, e) \o CollapseWhiteSpace(s, e + 1)

\* String.prototype.trim
Trim(s) ==
  LET inked == {p \in 1..Len(s) : CharAt(s, p) \notin WhiteSpace}
  IN IF inked = {} THEN ""
     ELSE SubSeq(s, CHOOSE p \in inked : \A q \in inked : p <= q,
                    CHOOSE p \in inked : \A q \in inked : p >= q)

RECURSIVE MatchSentences(_, _)
\* s.match(/[^.!?]+[.!?]+|[^.!?]+$/g) from position i on, as a sequence (empty:
\* match returns null). A match starts at a character outside [.!?]; where no
\* match starts the scan moves one character on.
MatchSentences(s, i) ==
  IF i > Len(s) THEN <<>>
  ELSE IF CharAt(s, i) \in Delimiters THEN MatchSentences(s, i + 1)
  ELSE LET e == RunEnd(s, i, Delimiters, FALSE)
       IN IF e = Len(s) THEN <<SubSeq(s, i, e)>>
          ELSE LET d == RunEnd(s, e + 1, Delimiters, TRUE)
               IN <<SubSeq(s, i, d)>> \o MatchSentences(s, d + 1)

splitIntoSentences(txt) ==
  LET normalized == Trim(CollapseWhiteSpace(txt, 1))
      matches == MatchSentences(normalized, 1)
  IN IF normalized = "" THEN <<>>
     ELSE IF matches = <<>> THEN <<normalized>>
     ELSE SelectSeq([k \in 1..Len(matches) |-> Trim(matches[k])],
                    LAMBDA m : m # "")

RECURSIVE detectSectionFrom(_, _)
\* detectSectionForText: the loop over Object.entries(this.keywords) from entry k
detectSectionFrom(textLower, k) ==
  IF k > Len(keywords) THEN Null
  ELSE IF \E j \in 1..Len(keywords[k].terms) : Includes(textLower, keywords[k].terms[j])
       THEN keywords[k].section
       ELSE detectSectionFrom(textLower, k + 1)

\* Faulty variant: the last section with a term in the text wins
detectSectionLast(textLower) ==
  LET hits == {k \in 1..Len(keywords) :
                 \E j \in 1..Len(keywords[k].terms) :
                   Includes(textLower, keywords[k].terms[j])}
  IN IF hits = {} THEN Null
     ELSE keywords[CHOOSE k \in hits : \A h \in hits : h <= k].section

detectSectionForText(textLower) == detectSectionFrom(textLower, 1)

InSeq(x, seq) == \E k \in 1..Len(seq) : seq[k] = x

\* Faulty variant: the cap on the section size is not applied
addSentenceNoCap(secs, section, sentence) ==
  IF ~InSeq(sentence, secs[section])
  THEN [secs EXCEPT ![section] = Append(@, sentence)]
  ELSE secs

\* Faulty variant: a new sentence goes to the front of its section
addSentenceFront(secs, section, sentence) ==
  IF Len(secs[section]) < maxItemsPerSection /\ ~InSeq(sentence, secs[section])
  THEN [secs EXCEPT ![section] = <<sentence>> \o @]
  ELSE secs

\* if (sections[section].size < this.maxItemsPerSection) sections[section].add(sentence)
\* on a Set, which keeps insertion order and ignores a value it already holds
addSentence(secs, section, sentence) ==
  IF Len(secs[section]) < maxItemsPerSection /\ ~InSeq(sentence, secs[section])
  THEN [secs EXCEPT ![section] = Append(@, sentence)]
  ELSE secs

RECURSIVE addSentences(_, _, _)
\* for (const sentence of sentences) ..., from sentence k on
addSentences(secs, sents, k) ==
  IF k > Len(sents) THEN secs
  ELSE LET section == detectSectionForText(ToLowerCase(sents[k]))
       IN addSentences(
            IF section # Null /\ section \in DOMAIN secs
            THEN addSentence(secs, section, sents[k])
            ELSE secs,
            sents, k + 1)

RECURSIVE addMessages(_, _, _)
\* for (const msg of assistantMessages) ..., from message k on
addMessages(secs, msgs, k) ==
  IF k > Len(msgs) THEN secs
  ELSE addMessages(addSentences(secs, splitIntoSentences(msgs[k].content), 1),
                   msgs, k + 1)

emptySections == [key \in {sectionsOrder[k] : k \in 1..Len(sectionsOrder)} |-> <<>>]

buildSections(msgs) ==
  addMessages(emptySections,
              SelectSeq(msgs, LAMBDA m : m.role = "assistant" \/ m.role = "bot"),
              1)

-----------------------------------------------------------------------------
(* BlueprintGenerator: localization of the sections *)

RECURSIVE JoinWith(_, _)
\* Array.prototype.join
JoinWith(seq, sep) ==
  IF Len(seq) = 0 THEN ""
  ELSE IF Len(seq) = 1 THEN seq[1]
  ELSE seq[1] \o sep \o JoinWith(Tail(seq), sep)

\* JSON.stringify of a section map: the keys in insertion order, each with its
\* array of strings (the model's sentences hold no character JSON escapes)
JSONStringify(secs) ==
  "{" \o JoinWith([k \in 1..Len(sectionsOrder) |->
                     "\"" \o sectionsOrder[k] \o "\":["
                     \o JoinWith([i \in 1..Len(secs[sectionsOrder[k]]) |->
                                    "\"" \o secs[sectionsOrder[k]][i] \o "\""], ",")
                     \o "]"], ",")
      \o "}"

RECURSIVE SumLengths(_, _)
\* Object.values(sections).reduce((n, arr) => n + (arr ? arr.length : 0), 0)
SumLengths(secs, k) ==
  IF k > Len(sectionsOrder) THEN 0
  ELSE Len(secs[sectionsOrder[k]]) + SumLengths(secs, k + 1)

totalCount(secs) == SumLengths(secs, 1)

\* Faulty variant: the language is left out of the key
cacheKeyNoLang(secs, lng) == JSONStringify(secs)

\* const cacheKey = JSON.stringify(sections) + '::' + lang
cacheKey(secs, lng) == JSONStringify(secs) \o "::" \o lng

\* getAIConfig() and the test (!cfg || !cfg.apiKey): the key the request would carry
hasApiKey(key) == key # Null /\ key # ""

\* Where maybeTranslateSections goes before it awaits anything
translationRoute(secs, lng, cache, key) ==
  IF secs = NotBuilt THEN "original"
  ELSE IF totalCount(secs) = 0 THEN "original"
  ELSE IF cacheKey(secs, lng) \in DOMAIN cache THEN "cached"
  ELSE IF lng # "en" /\ lng # "es" THEN "original"
  ELSE IF ~hasApiKey(key) THEN "original"
  ELSE "translate"

\* const out = parsed.sections || parsed
outOf(parsed) == IF "sections" \in DOMAIN parsed THEN parsed.sections ELSE parsed

Threw == [threw |-> TRUE]

\* translateViaOpenRouter from the moment fetch settles: what it returns, or
\* that it threw. response.fetch says whether fetch resolved; response.ok is
\* its status flag; response.json says what JSON.parse makes of the content
\* ("throws", "null" or "value"), and response.parsed is the parsed value.
translateViaOpenRouter(secs, response) ==
  IF response.fetch = "rejects" THEN Threw
  ELSE IF ~response.ok THEN Threw
  ELSE IF response.json = "throws" THEN Threw
  ELSE IF response.json = "null" THEN Threw
  ELSE LET out == outOf(response.parsed)
       IN [threw |-> FALSE,
           value |-> [key \in DOMAIN secs |->
                        IF key \in DOMAIN out /\ out[key].isArray
                        THEN out[key].items
                        ELSE secs[key]]]

\* Faulty variant: an error of the translation is not caught
settleTranslationNoCatch(secs, attempt) ==
  IF attempt.threw
  THEN [state |-> "rejected", result |-> NotBuilt, stored |-> FALSE]
  ELSE [state |-> "resolved", result |-> attempt.value, stored |-> TRUE]

\* Faulty variant: the translated map is returned and not stored
settleTranslationNoStore(secs, attempt) ==
  IF attempt.threw
  THEN [state |-> "resolved", result |-> secs, stored |-> FALSE]
  ELSE [state |-> "resolved", result |-> attempt.value, stored |-> FALSE]

\* Faulty variant: after an error the original sections are stored as if
\* they were the translation
settleTranslationCachesOriginal(secs, attempt) ==
  IF attempt.threw
  THEN [state |-> "resolved", result |-> secs, stored |-> TRUE]
  ELSE [state |-> "resolved", result |-> attempt.value, stored |-> TRUE]

\* The try/catch of maybeTranslateSections around the translation: how the
\* call ends, and whether the cache is written
settleTranslation(secs, attempt) ==
  IF attempt.threw
  THEN [state |-> "resolved", result |-> secs, stored |-> FALSE]
  ELSE [state |-> "resolved", result |-> attempt.value, stored |-> TRUE]

\* Faulty variant: an entry that exists is kept, the first writer wins
MapSetIfAbsent(map, key, value) ==
  [k \in DOMAIN map \cup {key} |-> IF k \in DOMAIN map THEN map[k] ELSE value]

\* Map.prototype.set
MapSet(map, key, value) ==
  [k \in DOMAIN map \cup {key} |-> IF k = key THEN value ELSE map[k]]

-----------------------------------------------------------------------------
(* AIService.generateResponse *)

\* Faulty variant: only the key is looked at
generateRouteKeyOnly(available, key) ==
  IF ~hasApiKey(key) THEN "fallback" ELSE "request"

\* if (!this.isAvailable || !this.apiKey) return this.getFallbackResponse(userMessage)
generateRoute(available, key) ==
  IF ~available \/ ~hasApiKey(key) THEN "fallback" ELSE "request"

\* The try block of generateResponse from the moment fetch settles: the text
\* it returns, or that it threw. response.json says whether response.json()
\* gave a value; response.wellFormed, whether data.choices[0].message.content
\* is there and is a string.
completion(response) ==
  IF response.fetch = "rejects" THEN Threw
  ELSE IF ~response.ok THEN Threw
  ELSE IF response.json = "throws" THEN Threw
  ELSE IF ~response.wellFormed THEN Threw
  ELSE [threw |-> FALSE, value |-> Trim(response.content)]

-----------------------------------------------------------------------------
(* Inputs *)

\* Words a typed message is made of
Vocabulary == <<"wat", "u", "eet?", "Hello", "zqll">>

RECURSIVE Phrases(_)
Phrases(n) ==
  IF n = 0 THEN {""}
  ELSE Phrases(n - 1) \cup
       {IF p = "" THEN Vocabulary[w] ELSE p \o " " \o Vocabulary[w] :
          p \in Phrases(n - 1), w \in 1..Len(Vocabulary)}

KeywordsOf(t) == {topicKeywords[t].keywords[k] : k \in 1..Len(topicKeywords[t].keywords)}
AllKeywords == UNION {KeywordsOf(t) : t \in 1..Len(topicKeywords)}

\* Inputs of the scenarios the specification names
Probes == {"wat do u eet?", "zqz whats ur", "skils", "   ", "What is your zqz"}

\* The typos the normalizer knows and what it writes for them
CorrectionWords == {corrections[k][i] : k \in 1..Len(corrections), i \in 1..2}

Messages == AllKeywords \cup Phrases(MaxWords) \cup Probes \cup CorrectionWords

StoredLangs == {Null, "en", "es", "ES", "fr"}
DocLangs == {"", "en", "es"}

-----------------------------------------------------------------------------
(* Idle values of the parts a specification does not exercise *)

NotDetected == [topic |-> Unset, pass |-> Unset, keyword |-> Unset]

AIIdle ==
  /\ message = "" /\ lang = Unset /\ input = "" /\ nPre = 0
  /\ detected = NotDetected /\ reply = Unset
GenIdle == gen = GenNone
BpIdle == messages = <<>> /\ text = "" /\ sentences = NotSplit /\ sectionFound = Unset /\ sections = NotBuilt
TrIdle == translationCache = <<>> /\ calls = <<>> /\ netLog = <<>>
SvcIdle == apiKey = Null /\ isAvailable = FALSE
\* ChatManager after its constructor, the settings store empty
ChatIdle ==
  /\ isTyping = FALSE /\ aiMode = FALSE /\ autoSave = TRUE
  /\ sends = <<>> /\ settings = <<>> /\ notice = NoNotice
\* A page that stores no preference and declares no language
NoPreference == [stored |-> Null, docLang |-> "", throws |-> FALSE]
UiIdle == langSource = NoPreference /\ displayLang = "en" /\ rendered = Hidden /\ ariaExpanded = "false"

-----------------------------------------------------------------------------
(* Specification SpecClassifier: one message through the normalizer, the  *)
(* classifier and the fallback responder                                   *)

InitClassifier ==
  /\ message \in Messages
  /\ input = message /\ nPre = 0
  /\ lang = Unset /\ detected = NotDetected /\ reply = Unset
  /\ GenIdle /\ BpIdle /\ TrIdle /\ SvcIdle /\ ChatIdle /\ UiIdle

\* input = preprocessMessage(input)
PreprocessMessage ==
  /\ detected = NotDetected /\ reply = Unset /\ nPre < MaxPre
  /\ input' = preprocessMessage(input)
  /\ nPre' = nPre + 1
  /\ UNCHANGED <<message, lang, detected, reply, genVars, chatVars, bpVars, trVars, svcVars, uiVars>>

\* detectTopic(input)
DetectTopic ==
  /\ detected = NotDetected /\ reply = Unset
  /\ detected' = detectTopicTrace(input)
  /\ UNCHANGED <<message, lang, input, nPre, reply, genVars, chatVars, bpVars, trVars, svcVars, uiVars>>

\* getFallbackResponse(message): reads the language, normalizes, classifies, picks
GetFallbackResponse ==
  /\ detected = NotDetected /\ reply = Unset /\ nPre = 0
  /\ input' = preprocessMessage(message)
  /\ nPre' = 1
  /\ detected' = detectTopicTrace(input')
  /\ lang' \in {getLang(stored, docLang, throws) :
                 stored \in StoredLangs, docLang \in DocLangs, throws \in BOOLEAN}
  /\ \E r \in 0..(RandomSteps - 1) :
       reply' = selectResponse(detected'.topic, lang', r)
  /\ UNCHANGED <<message, genVars, chatVars, bpVars, trVars, svcVars, uiVars>>

NextClassifier == PreprocessMessage \/ DetectTopic \/ GetFallbackResponse

SpecClassifier == InitClassifier /\ [][NextClassifier]_vars

-----------------------------------------------------------------------------
(* Claims about the normalizer, the classifier and the fallback responder *)

\* The numbers of the topics that list kw, and of those with a keyword occurring in s
TopicsListing(kw) == {t \in 1..Len(topicKeywords) : kw \in KeywordsOf(t)}
TopicsOccurringIn(s) ==
  {t \in 1..Len(topicKeywords) : \E kw \in KeywordsOf(t) : Includes(s, kw)}
Least(S) == CHOOSE x \in S : \A y \in S : x <= y

\* message has been normalized once and then classified
NormalizedAndClassified == nPre = 1 /\ detected # NotDetected

\* C1 as stated: for every topic T and every keyword k listed under T,
\* detectTopic(preprocessMessage(k)) returns T.
C1_KeywordReturnsItsTopic ==
  NormalizedAndClassified =>
    \A t \in TopicsListing(message) : detected.topic = topicKeywords[t].topic

\* C1 amended: for every topic T and every keyword k listed under T,
\* detectTopic(preprocessMessage(k)) returns the earliest-declared topic among T
\* and the topics that have a keyword occurring in preprocessMessage(k); so it
\* returns T or a topic declared before T, and never null.
C1_KeywordReturnsEarliestTopic ==
  NormalizedAndClassified =>
    \A t \in TopicsListing(message) :
      detected.topic =
        topicKeywords[Least(TopicsOccurringIn(input) \cup {t})].topic

\* C1 witness: the keyword 'how do you survive' of skills is classified as name,
\* the earlier topic whose keyword 'ho' occurs in it.
C1_Witness ==
  /\ NormalizedAndClassified
  /\ message = "how do you survive"
  /\ message \in KeywordsOf(5)
  /\ detected.topic = "name"

\* Similarity 1 - distance / max(length) of s to every keyword is below 0.6
AllBelowThreshold(s) ==
  \A kw \in AllKeywords :
    LET distance == levenshteinDistance(ToLowerCase(s), ToLowerCase(kw))
        longest  == Max(Len(s), Len(kw))
    IN 10 * (longest - distance) < 6 * longest

NoKeywordOccursIn(s) == \A kw \in AllKeywords : ~Includes(s, kw)

\* C2 as stated: an input that contains no keyword of any topic as a substring
\* and whose similarity to every keyword is below 0.6 is given no topic.
C2_NoMatchGivesNull ==
  detected # NotDetected =>
    \/ detected.topic = Null
    \/ ~NoKeywordOccursIn(input)
    \/ ~AllBelowThreshold(input)

\* C2 amended: an input that contains no keyword of any topic as a substring,
\* contains neither 'whats your' nor 'whats ur' (nor 'what is your', 'what is ur'),
\* and whose similarity to every keyword is below 0.6 is given no topic; an input
\* containing one of these phrases and no keyword is classified as name.
C2_NoMatchNoPhraseGivesNull ==
  detected # NotDetected =>
    \/ detected.topic =
         IF \/ Includes(input, "whats your") \/ Includes(input, "whats ur")
            \/ Includes(input, "what is your") \/ Includes(input, "what is ur")
         THEN "name" ELSE Null
    \/ ~NoKeywordOccursIn(input)
    \/ ~AllBelowThreshold(input)

\* C2 witness: 'zqll' matches nothing and is given no topic.
C2_Witness ==
  /\ input = "zqll"
  /\ NoKeywordOccursIn(input) /\ AllBelowThreshold(input)
  /\ detected.topic = Null

\* C3: getFallbackResponse returns a non-empty string for every string input,
\* the empty and the whitespace-only string included, for every language value
\* and every outcome of the random source.
C3_FallbackNeverEmpty ==
  reply # Unset => (reply # Undefined /\ reply # Null /\ Len(reply) > 0)

\* C3 witness: a reply to the whitespace-only message with the language 'es'
C3_Witness == message = "   " /\ lang = "es" /\ reply # Unset /\ Len(reply) > 0

\* C10: preprocessMessage("wat do u eet?") is "what do you eat?", and detectTopic
\* of that is the food topic.
C10_Scenario1 ==
  (message = "wat do u eet?" /\ nPre = 1) =>
    /\ input = "what do you eat?"
    /\ detected # NotDetected => detected.topic = "food"

\* C10 witness: the scenario's input, normalized and classified
C10_Witness ==
  message = "wat do u eet?" /\ nPre = 1 /\ detected.topic = "food"

-----------------------------------------------------------------------------
(* Specification SpecSentences: splitIntoSentences on one text *)

\* The characters texts are made of
TextAlphabet == <<"a", ".", "!", " ">>

RECURSIVE TextsUpTo(_)
TextsUpTo(n) ==
  IF n = 0 THEN {""}
  ELSE TextsUpTo(n - 1) \cup
       {t \o TextAlphabet[c] : t \in TextsUpTo(n - 1), c \in 1..Len(TextAlphabet)}

Texts == TextsUpTo(MaxTextLen) \cup {"A. B! C?", "Hi there.\n\nI  am Polar"}

InitSentences ==
  /\ text \in Texts /\ sentences = NotSplit /\ sectionFound = Unset
  /\ messages = <<>> /\ sections = NotBuilt
  /\ AIIdle /\ GenIdle /\ TrIdle /\ SvcIdle /\ ChatIdle /\ UiIdle

\* splitIntoSentences(text)
SplitIntoSentences ==
  /\ sentences = NotSplit
  /\ sentences' = splitIntoSentences(text)
  /\ UNCHANGED <<text, messages, sectionFound, sections, aiVars, genVars, chatVars, trVars, svcVars, uiVars>>

NextSentences == SplitIntoSentences

SpecSentences == InitSentences /\ [][NextSentences]_vars

-----------------------------------------------------------------------------
(* Specification SpecBlueprint: a conversation grows; the blueprint is     *)
(* extracted from it                                                       *)

\* What is said in the conversation
Contents ==
  <<"what do you eat?",
    "I roam the sea ice near Svalbard. I hunt ringed seals.",
    "I eat seals. I eat fish! I eat seals. I hunt prey",
    "I hunt ringed seals. My name is Polar!">>

InitBlueprint ==
  /\ messages = <<>> /\ sections = NotBuilt
  /\ text = "" /\ sentences = NotSplit /\ sectionFound = Unset
  /\ AIIdle /\ GenIdle /\ TrIdle /\ SvcIdle /\ ChatIdle /\ UiIdle

\* ChatManager.addMessage(content, isUser)
AddMessage(content, isUser) ==
  /\ Len(messages) < MaxMessages
  /\ messages' = Append(messages,
       [role |-> IF isUser THEN "user" ELSE "assistant", content |-> content])
  /\ UNCHANGED <<sections, text, sentences, sectionFound, aiVars, genVars, chatVars, trVars, svcVars, uiVars>>

\* handleGenerateClick: sections = this.buildSections(messages)
BuildSections ==
  /\ sections' = buildSections(messages)
  /\ UNCHANGED <<messages, text, sentences, sectionFound, aiVars, genVars, chatVars, trVars, svcVars, uiVars>>

NextBlueprint ==
  \/ \E c \in 1..Len(Contents), isUser \in BOOLEAN : AddMessage(Contents[c], isUser)
  \/ BuildSections

SpecBlueprint == InitBlueprint /\ [][NextBlueprint]_vars

-----------------------------------------------------------------------------
(* Claims about the blueprint extraction *)

NoDuplicates(seq) == \A i, j \in 1..Len(seq) : seq[i] = seq[j] => i = j

\* The sentences of the assistant's and the bot's messages filed under a section
RECURSIVE SentencesOfAll(_, _)
SentencesOfAll(msgs, k) ==
  IF k > Len(msgs) THEN <<>>
  ELSE (IF msgs[k].role \in {"assistant", "bot"}
        THEN splitIntoSentences(msgs[k].content) ELSE <<>>)
       \o SentencesOfAll(msgs, k + 1)

CandidatesFor(section, msgs) ==
  SelectSeq(SentencesOfAll(msgs, 1),
            LAMBDA s : detectSectionForText(ToLowerCase(s)) = section)

\* C4: for every message history, every section of the map buildSections
\* returns holds at most 3 items, and no two items of one section are equal
\* strings.
C4_SectionsBoundedAndDistinct ==
  sections # NotBuilt =>
    \A key \in DOMAIN sections :
      Len(sections[key]) <= 3 /\ NoDuplicates(sections[key])

\* C4's case: the history offers a section more than three sentences, one of
\* them twice, and the section built from it is full.
C4_Witness ==
  /\ sections # NotBuilt
  /\ sections = buildSections(messages)
  /\ Len(sections["diet"]) = 3
  /\ Len(CandidatesFor("diet", messages)) > 3
  /\ ~NoDuplicates(CandidatesFor("diet", messages))

RECURSIVE CutAfterRuns(_, _)
\* The pieces of s from position i on, when s is cut after each run of
\* delimiters: every piece but the last ends with a whole run.
CutAfterRuns(s, i) ==
  IF i > Len(s) THEN <<>>
  ELSE LET e == IF CharAt(s, i) \in Delimiters THEN i - 1
                ELSE RunEnd(s, i, Delimiters, FALSE)
           d == IF e = Len(s) THEN e ELSE RunEnd(s, e + 1, Delimiters, TRUE)
       IN <<SubSeq(s, i, d)>> \o CutAfterRuns(s, d + 1)

SentencesByCutting(txt) ==
  LET pieces == CutAfterRuns(Trim(CollapseWhiteSpace(txt, 1)), 1)
  IN SelectSeq([k \in 1..Len(pieces) |-> Trim(pieces[k])], LAMBDA p : p # "")

\* C5: splitIntoSentences cuts the text after each run of '.', '!' or '?',
\* the delimiters staying with the sentence before them, and a trailing
\* fragment without terminal punctuation is a sentence of its own; "A. B! C?"
\* gives exactly "A.", "B!", "C?".
C5_CutsAfterEachRun ==
  sentences # NotSplit =>
    /\ sentences = SentencesByCutting(text)
    /\ text = "A. B! C?" => sentences = <<"A.", "B!", "C?">>

\* C5, the part the code satisfies: the example of the claim, and every text
\* that does not begin with a delimiter.
C5_HoldsUnlessLeadingDelimiter ==
  sentences # NotSplit =>
    /\ text = "A. B! C?" => sentences = <<"A.", "B!", "C?">>
    /\ (Trim(CollapseWhiteSpace(text, 1)) = ""
        \/ CharAt(Trim(CollapseWhiteSpace(text, 1)), 1) \notin Delimiters)
       => sentences = SentencesByCutting(text)

\* C5's failing input: the text begins with a delimiter run that other text
\* follows, and the run is in no sentence returned.
C5_LeadingRunDropped ==
  /\ text = "!a."
  /\ sentences = <<"a.">>
  /\ SentencesByCutting(text) = <<"!", "a.">>

-----------------------------------------------------------------------------
(* Specification SpecLocalize: calls of maybeTranslateSections against a   *)
(* translation provider that may fail or answer in any shape               *)

\* Section maps handed to maybeTranslateSections
NotesA ==
  [emptySections EXCEPT !["habitat"] = <<"I roam the sea ice.">>,
                        !["diet"] = <<"I eat seals.", "I eat fish!">>]

SectionInputs == {NotBuilt, emptySections, NotesA}

TargetLangs == {"es", "EN", "fr"}

ApiKeys == {Null, "sk-or-key"}

\* What a provider that follows the prompt sends for one sentence
TranslatedItem(item, lng) == "(" \o lng \o ") " \o item

JsonArray(items) == [isArray |-> TRUE, items |-> items]
JsonString == [isArray |-> FALSE]

FullAnswer(secs, lng) ==
  [key \in DOMAIN secs |->
     JsonArray([i \in 1..Len(secs[key]) |-> TranslatedItem(secs[key][i], lng)])]

\* The JSON values a provider may put in the content
Answers(secs, lng) ==
  LET full == FullAnswer(secs, lng)
  IN { full,                                            \* bare map
       [sections |-> full],                             \* wrapped map
       [sections |-> [key \in DOMAIN secs \ {"diet"} |-> full[key]]],   \* a key is missing
       [sections |-> [full EXCEPT !["diet"] = JsonArray(Tail(full["diet"].items))]],  \* an array is shorter
       [sections |-> [full EXCEPT !["diet"] = JsonString]] }            \* a key holds no array

NoResponse == [fetch |-> "pending"]

\* How the request of a call may end
Responses(secs, lng) ==
  { [fetch |-> "rejects"],
    [fetch |-> "resolves", ok |-> FALSE],
    [fetch |-> "resolves", ok |-> TRUE, json |-> "throws"],
    [fetch |-> "resolves", ok |-> TRUE, json |-> "null"] }
  \cup { [fetch |-> "resolves", ok |-> TRUE, json |-> "value", parsed |-> a] :
           a \in Answers(secs, lng) }

Failed(response) ==
  response.fetch = "rejects"
  \/ (response.fetch = "resolves" /\ (~response.ok \/ response.json = "throws"))

InitLocalize ==
  /\ TrIdle /\ SvcIdle /\ ChatIdle /\ UiIdle
  /\ AIIdle /\ GenIdle /\ BpIdle

\* AIService.init(apiKey), with the verdict of testConnection
InitService(key, connected) ==
  /\ apiKey' = key
  /\ isAvailable' = IF hasApiKey(key) THEN connected ELSE isAvailable
  /\ UNCHANGED <<trVars, aiVars, genVars, chatVars, bpVars, uiVars>>

AwaitingCalls == {c \in 1..Len(calls) : calls[c].state = "awaiting"}
ResolvedCalls == {c \in 1..Len(calls) : calls[c].state = "resolved"}

\* maybeTranslateSections(sections, targetLang) up to its first await: the
\* call it adds and the request it sends
IssueCall(secs, targetLang) ==
  /\ Len(calls) < MaxCalls
  /\ LET lng == ToLowerCase(targetLang)
         route == translationRoute(secs, lng, translationCache, apiKey)
         call == [sections |-> secs, targetLang |-> targetLang, lang |-> lng,
                  issuedAfter |-> ResolvedCalls, response |-> NoResponse,
                  stored |-> FALSE]
     IN /\ calls' = Append(calls,
             IF route = "translate"
             THEN call @@ [state |-> "awaiting", result |-> NotBuilt, invoked |-> TRUE]
             ELSE call @@ [state |-> "resolved", invoked |-> FALSE,
                           result |-> IF route = "cached"
                                      THEN translationCache[cacheKey(secs, lng)]
                                      ELSE secs])
        /\ netLog' = IF route = "translate"
                     THEN Append(netLog, [call |-> Len(calls) + 1, lang |-> lng])
                     ELSE netLog

\* maybeTranslateSections(sections, targetLang) up to its first await
MaybeTranslateSections(secs, targetLang) ==
  /\ IssueCall(secs, targetLang)
  /\ UNCHANGED <<translationCache, svcVars, aiVars, genVars, chatVars, bpVars, uiVars>>

\* The request of call c settles and maybeTranslateSections runs to its end:
\* how the call ends and what the cache becomes
SettleCall(c) ==
  /\ c \in AwaitingCalls
  /\ \E response \in Responses(calls[c].sections, calls[c].lang) :
       LET call == calls[c]
           attempt == translateViaOpenRouter(call.sections, response)
           done == settleTranslation(call.sections, attempt)
       IN /\ calls' = [calls EXCEPT ![c] =
                         [call EXCEPT !.state = done.state, !.result = done.result,
                                      !.stored = done.stored, !.response = response]]
          /\ translationCache' =
               IF done.stored
               THEN MapSet(translationCache, cacheKey(call.sections, call.lang),
                           done.result)
               ELSE translationCache

\* The request of call c settles and maybeTranslateSections runs to its end
TranslationSettles(c) ==
  /\ SettleCall(c)
  /\ UNCHANGED <<netLog, svcVars, aiVars, genVars, chatVars, bpVars, uiVars>>

NextLocalize ==
  \/ \E key \in ApiKeys, connected \in BOOLEAN : InitService(key, connected)
  \/ \E secs \in SectionInputs, targetLang \in TargetLangs :
       MaybeTranslateSections(secs, targetLang)
  \/ \E c \in 1..MaxCalls : TranslationSettles(c)

SpecLocalize == InitLocalize /\ [][NextLocalize]_vars

-----------------------------------------------------------------------------
(* Claims about the localization *)

\* The requests call c has sent to the translation provider
Invocations(c) == Cardinality({n \in 1..Len(netLog) : netLog[n].call = c})

\* No request so far has ended otherwise than by a throw, an HTTP error status
\* or an unparsable body
CapabilityFailedEveryTime ==
  \A c \in 1..Len(calls) :
    calls[c].response = NoResponse \/ Failed(calls[c].response)

\* C6: while the translation capability fails on every call (it throws, answers
\* with an HTTP error status, or with a body that cannot be parsed),
\* maybeTranslateSections(sections, 'es') resolves to the sections it was
\* given, and never rejects.
C6_FailOpen ==
  CapabilityFailedEveryTime =>
    \A c \in 1..Len(calls) :
      calls[c].targetLang = "es" =>
        /\ calls[c].state # "rejected"
        /\ calls[c].state = "resolved" => calls[c].result = calls[c].sections

\* C6's case: a call for 'es' has sent its request, the request has failed,
\* and the call has resolved to its own sections.
C6_Witness ==
  /\ CapabilityFailedEveryTime
  /\ \E c \in 1..Len(calls) :
       /\ calls[c].targetLang = "es" /\ calls[c].sections = NotesA
       /\ Invocations(c) = 1 /\ Failed(calls[c].response)
       /\ calls[c].state = "resolved" /\ calls[c].result = NotesA

\* Call j repeats call i and was issued after i had resolved
RepeatsAfter(i, j) ==
  /\ i \in calls[j].issuedAfter
  /\ calls[j].sections = calls[i].sections
  /\ calls[j].targetLang = calls[i].targetLang

\* The request of call c ended in an error inside translateViaOpenRouter
InvocationThrew(c) ==
  /\ calls[c].invoked /\ calls[c].response # NoResponse
  /\ translateViaOpenRouter(calls[c].sections, calls[c].response).threw

\* C7, as stated: of two calls of maybeTranslateSections with the same sections
\* and language, the second issued after the first resolved, at most one
\* invokes the translation capability.
C7_AtMostOneInvocation ==
  \A i, j \in 1..Len(calls) :
    RepeatsAfter(i, j) => Invocations(i) + Invocations(j) <= 1

\* C7, amended: the same, unless the invocation of the first call ended in an
\* error; nothing is cached then, the second call invokes the capability
\* again, and the two calls make two invocations between them.
C7_AtMostOneInvocationUnlessFirstFailed ==
  \A i, j \in 1..Len(calls) :
    RepeatsAfter(i, j) =>
      /\ ~InvocationThrew(i) => Invocations(i) + Invocations(j) <= 1
      /\ Invocations(i) + Invocations(j) <= 2

\* C7's case: the first call translated, the second, issued after it, took
\* the translation from the cache.
C7_Witness ==
  \E i, j \in 1..Len(calls) :
    /\ RepeatsAfter(i, j) /\ calls[i].sections = NotesA
    /\ Invocations(i) = 1 /\ ~InvocationThrew(i)
    /\ Invocations(j) = 0 /\ calls[j].state = "resolved"
    /\ calls[j].result = calls[i].result /\ calls[j].result # NotesA

\* The answer to call c parsed, and it lacks a key of the sections sent or
\* gives a key an array of another length
ShapeBroken(c) ==
  /\ calls[c].response # NoResponse
  /\ calls[c].response.fetch = "resolves" /\ calls[c].response.ok
  /\ calls[c].response.json = "value"
  /\ LET out == outOf(calls[c].response.parsed)
     IN \E key \in DOMAIN calls[c].sections :
          \/ key \notin DOMAIN out
          \/ out[key].isArray /\ Len(out[key].items) # Len(calls[c].sections[key])

\* C8: a translation response that lacks one of the input's section keys, or
\* gives a section an array of another length than the input's, is discarded
\* as a whole: maybeTranslateSections returns the original sections and
\* stores nothing in the cache.
C8_BrokenShapeDiscarded ==
  \A c \in 1..Len(calls) :
    (calls[c].state = "resolved" /\ ShapeBroken(c)) =>
      /\ calls[c].result = calls[c].sections
      /\ ~calls[c].stored

\* C8's failing case: the response lacks the key 'diet'; the call returns the
\* other sections translated with the untranslated 'diet' items among them,
\* and the cache holds that map.
C8_PartialRepairCached ==
  \E c \in 1..Len(calls) :
    /\ calls[c].state = "resolved" /\ ShapeBroken(c)
    /\ calls[c].sections = NotesA
    /\ "diet" \notin DOMAIN outOf(calls[c].response.parsed)
    /\ calls[c].result["diet"] = NotesA["diet"]
    /\ calls[c].result["habitat"] # NotesA["habitat"]
    /\ cacheKey(NotesA, calls[c].lang) \in DOMAIN translationCache
    /\ translationCache[cacheKey(NotesA, calls[c].lang)] = calls[c].result

-----------------------------------------------------------------------------
(* Specification SpecGenerate: the chat asks generateResponse for one reply *)
(* after another, while the connection of the service comes and goes       *)

UserMessages == {"wat do u eet?", "Hello", "zqll"}

\* Texts the chat-completion provider may answer with
Completions == {"  I eat seals!\n", ""}

\* How the chat-completion request may end
ChatResponses ==
  { [fetch |-> "rejects"],
    [fetch |-> "resolves", ok |-> FALSE],
    [fetch |-> "resolves", ok |-> TRUE, json |-> "throws"],
    [fetch |-> "resolves", ok |-> TRUE, json |-> "value", wellFormed |-> FALSE] }
  \cup { [fetch |-> "resolves", ok |-> TRUE, json |-> "value", wellFormed |-> TRUE,
          content |-> c] : c \in Completions }

\* What getFallbackResponse computes from its argument before it draws a
\* response, for each message of UserMessages
Classified ==
  [um \in UserMessages |->
     LET in == preprocessMessage(um)
     IN [input |-> in, detected |-> detectTopicTrace(in)]]

InitGenerate ==
  /\ gen = GenNone
  /\ AIIdle /\ BpIdle /\ TrIdle /\ SvcIdle /\ ChatIdle /\ UiIdle

\* return this.getFallbackResponse(userMessage), as the last statement of call
\* g of generateResponse
ReturnFallback(g) ==
  /\ message' = g.userMessage
  /\ input' = Classified[message'].input
  /\ nPre' = 1
  /\ detected' = Classified[message'].detected
  /\ lang' \in {getLang(stored, docLang, throws) :
                 stored \in StoredLangs, docLang \in DocLangs, throws \in BOOLEAN}
  /\ \E r \in 0..(RandomSteps - 1) :
       reply' = selectResponse(detected'.topic, lang', r)
  /\ gen' = [g EXCEPT !.state = "resolved", !.result = reply', !.fallback = TRUE]

\* generateResponse(userMessage) up to its first await
GenerateResponse(userMessage) ==
  /\ gen.state # "awaiting"
  /\ LET g == [userMessage |-> userMessage, available |-> isAvailable,
               key |-> apiKey, state |-> "awaiting", requests |-> 0,
               response |-> NoResponse, result |-> Unset, fallback |-> FALSE]
     IN IF generateRoute(isAvailable, apiKey) = "fallback"
        THEN ReturnFallback(g)
        ELSE /\ gen' = [g EXCEPT !.requests = 1]
             /\ UNCHANGED aiVars
  /\ UNCHANGED <<bpVars, trVars, svcVars, uiVars, chatVars>>

\* The request settles and generateResponse runs to its end
CompletionSettles(response) ==
  /\ gen.state = "awaiting"
  /\ LET attempt == completion(response)
         g == [gen EXCEPT !.response = response]
     IN IF attempt.threw
        THEN ReturnFallback(g)
        ELSE /\ gen' = [g EXCEPT !.state = "resolved", !.result = attempt.value]
             /\ UNCHANGED aiVars
  /\ UNCHANGED <<bpVars, trVars, svcVars, uiVars, chatVars>>

NextGenerate ==
  \/ \E key \in ApiKeys, connected \in BOOLEAN : InitService(key, connected)
  \/ \E userMessage \in UserMessages : GenerateResponse(userMessage)
  \/ \E response \in ChatResponses : CompletionSettles(response)

SpecGenerate == InitGenerate /\ [][NextGenerate]_vars

-----------------------------------------------------------------------------
(* Claims about generateResponse *)

\* The values getFallbackResponse(userMessage) may return
FallbackResponsesFor(userMessage) ==
  {selectResponse(Classified[userMessage].detected.topic, lng, r) :
     lng \in {getLang(stored, docLang, throws) :
                stored \in StoredLangs, docLang \in DocLangs, throws \in BOOLEAN},
     r \in 0..(RandomSteps - 1)}

FallbackTable == [um \in UserMessages |-> FallbackResponsesFor(um)]

\* The chat-completion request threw, came back with a status that is not OK,
\* or with a body that is malformed
CompletionFailed(response) ==
  \/ response.fetch = "rejects"
  \/ response.fetch = "resolves" /\ ~response.ok
  \/ response.fetch = "resolves" /\ response.ok /\ response.json = "throws"
  \/ response.fetch = "resolves" /\ response.ok /\ response.json = "value"
     /\ ~response.wellFormed

\* C9: generateResponse never rejects. When the service is unavailable or has
\* no API key it returns getFallbackResponse(userMessage) and makes no network
\* call; when the chat-completion call throws, returns a status that is not
\* OK, or a malformed body, it returns getFallbackResponse(userMessage) too.
C9_NeverRejectsFallsBack ==
  gen # GenNone =>
    /\ gen.state # "rejected"
    /\ (~gen.available \/ gen.key = Null \/ gen.key = "") =>
         /\ gen.requests = 0
         /\ gen.state = "resolved"
         /\ gen.result \in FallbackTable[gen.userMessage]
    /\ (gen.response # NoResponse /\ CompletionFailed(gen.response)) =>
         /\ gen.state = "resolved"
         /\ gen.result \in FallbackTable[gen.userMessage]

\* C9's cases: a call made with a key while the service is unavailable has
\* resolved without a request; a call whose request came back malformed has
\* resolved with a fallback response.
C9_Witness ==
  /\ gen # GenNone /\ gen.state = "resolved" /\ gen.fallback
  /\ \/ ~gen.available /\ gen.key = "sk-or-key" /\ gen.requests = 0
     \/ gen.requests = 1 /\ gen.response # NoResponse
        /\ gen.response.fetch = "resolves" /\ gen.response.ok
        /\ gen.response.json = "value" /\ ~gen.response.wellFormed


-----------------------------------------------------------------------------
(* Specification SpecRender: the blueprint button and the language toggle  *)
(* of the page, with translations that settle in any order                 *)

\* The conversations getLatestMessages may return
Conversations ==
  { <<>>,
    <<[role |-> "assistant", content |-> Contents[2]]>>,
    <<[role |-> "user", content |-> Contents[1]],
      [role |-> "assistant", content |-> Contents[3]]>> }

\* The languages the toggle switches between
DisplayLangs == {"en", "es"}

\* renderBlueprint(localized), localized being the result of call c: the
\* container shows the sections; lang records the language c was issued for
Blueprint(call) ==
  [view |-> "blueprint", sections |-> call.result, lang |-> call.lang]

\* const isVisible = display !== 'none' && container.innerHTML.trim() !== ''
isVisible == rendered # Hidden

InitRender ==
  /\ messages \in Conversations
  /\ text = "" /\ sentences = NotSplit /\ sectionFound = Unset /\ sections = NotBuilt
  /\ TrIdle /\ SvcIdle /\ ChatIdle /\ UiIdle
  /\ AIIdle /\ GenIdle

\* Faulty variant: the translation is written into the object that was given
sectionsGivenOverwritten(call) == call.result

\* The sections object given to a call of maybeTranslateSections, as it is
\* when the call returns: no statement of maybeTranslateSections or of
\* translateViaOpenRouter assigns to it or to one of its arrays
sectionsGiven(call) == call.sections

\* maybeTranslateSections(secs, lng) called by a caller that renders its
\* result: at once when the call returns without awaiting the provider,
\* otherwise the container keeps showing waiting. secs is the object
\* this.lastSectionsSource refers to, in handleGenerateClick and in
\* reRenderForLanguage
IssueAndRender(secs, lng, waiting) ==
  /\ IssueCall(secs, lng)
  /\ LET call == calls'[Len(calls')]
     IN /\ rendered' = IF call.state = "resolved" THEN Blueprint(call) ELSE waiting
        /\ sections' = IF call.state = "resolved" THEN sectionsGiven(call) ELSE secs

\* handleGenerateClick()
HandleGenerateClick ==
  /\ IssueAndRender(buildSections(messages), displayLang, Translating)
  /\ UNCHANGED <<langSource, displayLang, translationCache, messages, text, sentences,
                 sectionFound, svcVars, aiVars, genVars, chatVars>>

\* The click listener of the blueprint button
BlueprintButtonClick ==
  IF isVisible
  THEN /\ rendered' = Hidden
       /\ ariaExpanded' = "false"
       /\ UNCHANGED <<langSource, displayLang, bpVars, trVars, svcVars, aiVars,
                      genVars, chatVars>>
  ELSE /\ HandleGenerateClick
       /\ ariaExpanded' = "true"

\* The click listener renderBlueprint wires to the close button of the blueprint
CloseButtonClick ==
  /\ rendered.view = "blueprint"
  /\ rendered' = Hidden
  /\ UNCHANGED <<langSource, displayLang, ariaExpanded, bpVars, trVars, svcVars,
                 aiVars, genVars, chatVars>>

\* reRenderForLanguage(lng)
reRenderForLanguage(lng) ==
  IF sections = NotBuilt
  THEN UNCHANGED <<rendered, calls, netLog, sections>>
  ELSE IssueAndRender(sections, lng, rendered)

\* A click on the language toggle: the page stores the other language as the
\* preference, then the listener's timer reads it and re-renders the blueprint
\* if it is visible
LangToggleClick ==
  /\ langSource' = [langSource EXCEPT
                      !.stored = CHOOSE l \in DisplayLangs : l # displayLang]
  /\ displayLang' =
       getCurrentLanguage(langSource'.stored, langSource'.docLang, langSource'.throws)
  /\ IF isVisible
     THEN reRenderForLanguage(displayLang')
     ELSE UNCHANGED <<rendered, calls, netLog, sections>>
  /\ UNCHANGED <<ariaExpanded, translationCache, messages, text, sentences, sectionFound,
                 svcVars, aiVars, genVars, chatVars>>

\* The request of call c settles, maybeTranslateSections returns and its
\* caller renders the result
RenderSettles(c) ==
  /\ SettleCall(c)
  /\ rendered' = Blueprint(calls'[c])
  /\ sections' = IF calls[c].sections = sections THEN sectionsGiven(calls'[c]) ELSE sections
  /\ UNCHANGED <<langSource, displayLang, ariaExpanded, netLog, messages, text, sentences,
                 sectionFound, svcVars, aiVars, genVars, chatVars>>

NextRender ==
  \/ \E key \in ApiKeys, connected \in BOOLEAN : InitService(key, connected)
  \/ BlueprintButtonClick
  \/ CloseButtonClick
  \/ LangToggleClick
  \/ \E c \in 1..MaxCalls : RenderSettles(c)

SpecRender == InitRender /\ [][NextRender]_vars

(* C14: when a translation requested for one language resolves after the   *)
(* display language has been changed to another, its caller discards the   *)
(* stale result: a blueprint that gets rendered is always the one for the  *)
(* language displayed at that moment.                                      *)
RendersCurrentLanguage ==
  (rendered' # rendered /\ rendered'.view = "blueprint")
    => rendered'.lang = displayLang'

C14_StaleResultDiscarded == [][RendersCurrentLanguage]_vars

\* The page displays English, the request for English has settled, and the
\* Spanish translation that settled after it is what the container shows
C14_StaleResultRendered ==
  /\ displayLang = "en"
  /\ rendered.view = "blueprint" /\ rendered.lang = "es"
  /\ \E c, d \in ResolvedCalls :
       /\ c < d
       /\ calls[c].lang = "es" /\ calls[c].stored /\ rendered.sections = calls[c].result
       /\ calls[c].result # calls[c].sections
       /\ calls[d].lang = "en" /\ calls[d].response # NoResponse
       /\ c \notin calls[d].issuedAfter

-----------------------------------------------------------------------------
(* Specification SpecLanguage: the language preference is read by both     *)
(* components from whatever the page holds                                 *)

\* What localStorage.getItem('polar.lang') may return
StoredPreferences == StoredLangs \cup {"", "en-US"}
\* What <html lang> may hold; getAttribute gives null when it is absent
DocumentLangs == DocLangs \cup {Null, "fr"}

InitLanguage ==
  /\ langSource \in [stored : StoredPreferences, docLang : DocumentLangs,
                     throws : BOOLEAN]
  /\ lang = Unset /\ displayLang = Unset /\ rendered = Hidden /\ ariaExpanded = "false"
  /\ message = "" /\ input = "" /\ nPre = 0 /\ detected = NotDetected /\ reply = Unset
  /\ GenIdle /\ BpIdle /\ TrIdle /\ SvcIdle /\ ChatIdle

\* AIService.getLang()
GetLang ==
  /\ lang' = getLang(langSource.stored, OrElse(langSource.docLang, ""), langSource.throws)
  /\ UNCHANGED <<message, input, nPre, detected, reply,
                 genVars, chatVars, bpVars, trVars, svcVars, uiVars>>

\* BlueprintGenerator.getCurrentLanguage()
GetCurrentLanguage ==
  /\ displayLang' =
       getCurrentLanguage(langSource.stored, langSource.docLang, langSource.throws)
  /\ UNCHANGED <<langSource, rendered, ariaExpanded, aiVars, genVars, chatVars, bpVars, trVars, svcVars>>

NextLanguage == GetLang \/ GetCurrentLanguage

SpecLanguage == InitLanguage /\ [][NextLanguage]_vars

(* C18: the language preference source (getLang / getCurrentLanguage)      *)
(* always returns one of the supported values 'en' or 'es', and returns    *)
(* the base language 'en' when the stored preference is unset or reading   *)
(* it throws.                                                              *)
C18_LanguageIsSupported ==
  \A returned \in {lang, displayLang} \ {Unset} :
     /\ returned \in {"en", "es"}
     /\ (langSource.stored = Null \/ langSource.throws) => returned = "en"

\* Both components have read a stored preference that is no supported value
C18_UnsupportedLanguageReturned ==
  /\ langSource.stored = "fr" /\ ~langSource.throws
  /\ lang = "fr" /\ displayLang = "fr"
-----------------------------------------------------------------------------
(* Further claims about the blueprint extraction *)

Scenario2Message ==
  [role |-> "assistant",
   content |-> "I roam the sea ice near Svalbard. I hunt ringed seals."]

Scenario2Sections ==
  [emptySections EXCEPT !["habitat"] = <<"I roam the sea ice near Svalbard.">>,
                        !["diet"] = <<"I hunt ringed seals.">>]

\* C11: buildSections on a history that holds the single assistant message
\* "I roam the sea ice near Svalbard. I hunt ringed seals." returns
\* habitat = ["I roam the sea ice near Svalbard."], diet = ["I hunt ringed
\* seals."] and the five other sections empty. Every step that builds the
\* sections from that history leaves exactly this map.
C11_Scenario2 ==
  [][(messages = <<Scenario2Message>> /\ sections' # sections)
       => sections' = Scenario2Sections]_vars

\* C11's case: the history holds that one message and the sections built
\* from it are the scenario's.
C11_Witness ==
  /\ messages = <<Scenario2Message>>
  /\ sections = Scenario2Sections
  /\ sections["identity"] = <<>> /\ sections["future"] = <<>>

IsPrefix(a, b) == Len(a) <= Len(b) /\ SubSeq(b, 1, Len(a)) = a

\* C15: for every history h and every messages m appended to it, each section
\* of buildSections(h followed by m) has the section of the same name of
\* buildSections(h) as a prefix. The history only grows, so every extraction
\* extends, section by section, the one made before it.
C15_ReExtractionAppends ==
  [][(sections # NotBuilt /\ sections' # sections)
       => \A key \in DOMAIN sections : IsPrefix(sections[key], sections'[key])]_vars

\* C15's case: the sections come from a history of two messages or more, and
\* the first message alone gives a section fewer items than the whole history,
\* yet not none.
C15_Witness ==
  /\ sections # NotBuilt /\ Len(messages) >= 2
  /\ sections = buildSections(messages)
  /\ LET before == buildSections(<<messages[1]>>)
     IN /\ before["diet"] # <<>>
        /\ Len(before["diet"]) < Len(sections["diet"])
        /\ IsPrefix(before["diet"], sections["diet"])

-----------------------------------------------------------------------------
(* Further claims about the normalizer, the classifier and the responder *)

\* The number of the topic named tp in the keyword table
TopicIndex(tp) == CHOOSE t \in 1..Len(topicKeywords) : topicKeywords[t].topic = tp

\* 1 - distance / max(length) >= 0.8, in integers
SimilarityAtLeastFourFifths(a, b) ==
  5 * (Max(Len(a), Len(b)) - levenshteinDistance(a, b)) >= 4 * Max(Len(a), Len(b))

\* C12 as stated: "skils" is not an exact keyword of the classifier; its
\* similarity to the keyword "skill" is 1 - 1/5 = 0.8, which passes the 0.6
\* threshold, and the input is classified as the skills topic.
C12_SkilsIsNoKeyword ==
  (message = "skils" /\ nPre = 0 /\ detected # NotDetected) =>
    /\ "skils" \notin AllKeywords
    /\ levenshteinDistance("skils", "skill") = 1
    /\ fuzzyMatch("skils", "skill")
    /\ detected.topic = "skills"

\* C12 amended: "skils" is itself a keyword of the skills topic, so the exact
\* pass classifies it as skills and the fuzzy pass is not reached (normalized
\* first, it becomes "skills", which the exact pass classifies as skills too);
\* its similarity to "skill" is 1 - 1/5 = 0.8 and would pass the threshold.
C12_SkilsIsExactKeyword ==
  (message = "skils" /\ detected # NotDetected) =>
    /\ "skils" \in KeywordsOf(TopicIndex("skills"))
    /\ levenshteinDistance("skils", "skill") = 1
    /\ SimilarityAtLeastFourFifths("skils", "skill")
    /\ fuzzyMatch("skils", "skill")
    /\ detected.topic = "skills" /\ detected.pass = "exact"
    /\ nPre = 0 => (input = "skils" /\ detected.keyword = "skils")
    /\ nPre >= 1 => input = "skills"

\* C12's case: "skils" has been classified as typed, by the exact pass, on the
\* keyword 'skils'.
C12_Witness ==
  /\ message = "skils" /\ nPre = 0 /\ input = "skils"
  /\ detected = [topic |-> "skills", pass |-> "exact", keyword |-> "skils"]


\* The response pools of a language, by topic, and its general pool
TopicPools(lng) == IF lng = "es" THEN spanishResponses ELSE fallbackResponses
GeneralPool(lng) == IF lng = "es" THEN generalEs ELSE generalEn
Elements(list) == {list[i] : i \in DOMAIN list}

(* C16: for language 'en' or 'es', when detectTopic finds a topic that has *)
(* a response pool for that language, getFallbackResponse returns an       *)
(* element of exactly that (topic, language) pool; when no topic is found  *)
(* it returns an element of the general pool of that same language.        *)
C16_ReplyFromPoolOfTopicAndLanguage ==
  (reply # Unset /\ lang \in {"en", "es"}) =>
     /\ (detected.topic # Null /\ detected.topic \in DOMAIN TopicPools(lang))
          => reply \in Elements(TopicPools(lang)[detected.topic])
     /\ detected.topic = Null => reply \in Elements(GeneralPool(lang))

\* Both cases happen in both languages; this is the topical one in English,
\* whose reply is no element of the Spanish pool of the topic
C16_Witness ==
  /\ reply # Unset /\ lang = "en"
  /\ detected.topic = "food"
  /\ reply \in Elements(fallbackResponses["food"])
  /\ reply \notin Elements(spanishResponses["food"])

RECURSIVE ApplyCorrectionsBackwards(_, _)
\* The corrections applied in the opposite order, from entry k down to the first
ApplyCorrectionsBackwards(processed, k) ==
  IF processed = "" \/ k < 1 THEN processed
  ELSE ApplyCorrectionsBackwards(
         ReplaceWord(processed, corrections[k][1], corrections[k][2], 1), k - 1)

\* No correction writes a word that a different correction rewrites
NoReplacementIsATrigger ==
  \A i, j \in 1..Len(corrections) :
     i # j => corrections[i][2] # corrections[j][1]

(* C17: in the correction table of preprocessMessage no correction's       *)
(* replacement is a trigger of a different correction, so the corrections  *)
(* give the same output applied in another order, and normalizing a        *)
(* normalized input changes nothing:                                       *)
(* preprocessMessage(preprocessMessage(x)) = preprocessMessage(x).         *)
C17_CorrectionsDoNotChain ==
  /\ NoReplacementIsATrigger
  /\ nPre >= 1 =>
       /\ input = preprocessMessage(message)
       /\ input = ApplyCorrectionsBackwards(ToLowerCase(message), Len(corrections))

\* A message with three typos has been normalized twice
C17_Witness ==
  /\ message = "wat do u eet?" /\ nPre = 2
  /\ input = "what do you eat?"

RECURSIVE DeclaredFirst(_, _)
\* The exact pass over the keyword lists as they are declared, unsorted
DeclaredFirst(in, t) ==
  IF t > Len(topicKeywords) THEN NoMatch
  ELSE LET k == FirstIncluded(in, topicKeywords[t].keywords, 1)
       IN IF k > 0
          THEN [topic |-> topicKeywords[t].topic, pass |-> "exact",
                keyword |-> topicKeywords[t].keywords[k]]
          ELSE DeclaredFirst(in, t + 1)

(* C19: the exact pass of detectTopic returns the first topic, in the      *)
(* declaration order of the keyword table, that has any keyword occurring  *)
(* as a substring of the input; a keyword listed under several topics      *)
(* resolves to the earliest-declared of them at the latest, and the        *)
(* longest-first sorting of a topic's keywords never changes which topic   *)
(* is returned.                                                            *)
C19_FirstDeclaredTopicWins ==
  detected # NotDetected =>
    LET occurring == TopicsOccurringIn(input)
    IN /\ (detected.pass = "exact") = (occurring # {})
       /\ occurring # {} =>
            /\ detected.topic = topicKeywords[Least(occurring)].topic
            /\ \A t \in TopicsListing(input) : TopicIndex(detected.topic) <= t
            /\ detected.topic = DeclaredFirst(input, 1).topic

\* 'where' is listed under location and under general; the list of location
\* is not declared longest-first, so the sorting has reordered it
C19_Witness ==
  /\ input = "where" /\ detected.pass = "exact"
  /\ Cardinality(TopicsListing(input)) >= 2
  /\ detected.topic = "location"
  /\ detected.topic = topicKeywords[Least(TopicsListing(input))].topic
  /\ sortedTable[TopicIndex("location")].keywords
       # topicKeywords[TopicIndex("location")].keywords

\* The input contains one of the four hard-mapped phrases
HardMapped(s) ==
  \E phrase \in {"what is your", "whats your", "what is ur", "whats ur"} :
     Includes(s, phrase)

(* C20: detectTopic applies its passes in strict priority: a topic found   *)
(* by the exact substring pass is always returned; the hard-mapped 'what   *)
(* is your' / 'whats your' / 'what is ur' / 'whats ur' rule returns 'name' *)
(* only when the exact pass found nothing; the fuzzy pass decides only     *)
(* when neither of the first two matched.                                  *)
C20_PassesInStrictPriority ==
  detected # NotDetected =>
    LET found == TopicsOccurringIn(input) # {}
    IN /\ found => detected.pass = "exact"
       /\ (~found /\ HardMapped(input)) =>
            (detected.pass = "special" /\ detected.topic = "name")
       /\ detected.pass = "special" => ~found
       /\ detected.pass \in {"fuzzy", "none"} => (~found /\ ~HardMapped(input))
       /\ detected.pass = "fuzzy" =>
            (detected.topic # Null /\ fuzzyMatch(input, detected.keyword))

\* An input with a hard-mapped phrase is decided by the exact pass, which
\* finds 'what is' of the general topic in it
C20_Witness ==
  /\ input = "what is your zqz" /\ HardMapped(input)
  /\ detected.pass = "exact" /\ detected.topic = "general"
-----------------------------------------------------------------------------
(* Further claims about the localization *)

\* Call c was made with sections that hold no item, or for a language (in
\* lower case, as maybeTranslateSections compares it) other than 'en' and 'es'
NothingToTranslate(c) ==
  /\ calls[c].sections # NotBuilt
  /\ totalCount(calls[c].sections) = 0 \/ calls[c].lang \notin {"en", "es"}

\* Such a call has returned its own sections and has sent no request
ReturnedUnchanged ==
  \A c \in 1..Len(calls) :
    NothingToTranslate(c) =>
      /\ calls[c].state = "resolved"
      /\ calls[c].result = calls[c].sections
      /\ ~calls[c].invoked /\ Invocations(c) = 0
      /\ ~calls[c].stored

\* The step that issues such a call leaves the cache as it was
CacheUntouched ==
  (Len(calls') > Len(calls) /\ NothingToTranslate(Len(calls))')
    => translationCache' = translationCache

\* C13: maybeTranslateSections returns the sections it was given, invokes no
\* translation and leaves the cache alone whenever the sections hold no item
\* or the target language is neither 'en' nor 'es', whatever calls came before
\* and whatever the cache holds by then.
C13_NothingToTranslateFrame == []ReturnedUnchanged /\ [][CacheUntouched]_vars

\* C13's case: the cache holds a translation of some sections, and a later
\* call with the same sections for 'fr' has returned them untranslated.
C13_Witness ==
  \E i, j \in 1..Len(calls) :
    /\ i \in calls[j].issuedAfter
    /\ calls[i].sections = NotesA /\ calls[i].stored
    /\ DOMAIN translationCache # {}
    /\ calls[j].sections = NotesA /\ calls[j].lang = "fr"
    /\ calls[j].state = "resolved" /\ calls[j].result = NotesA


\* No call has sent more than one request, and a call whose request ended in
\* an error has returned its own sections, with nothing stored
NoSecondAttempt ==
  \A c \in 1..Len(calls) :
    /\ Invocations(c) <= 1
    /\ InvocationThrew(c) =>
         /\ Invocations(c) = 1
         /\ calls[c].state = "resolved"
         /\ calls[c].result = calls[c].sections
         /\ ~calls[c].stored

\* The step in which a request ends in an error is the step in which the call
\* returns; it sends nothing and leaves the cache as it was
FailureReturnsAtOnce ==
  \A c \in 1..Len(calls) :
    (calls[c].state = "awaiting" /\ InvocationThrew(c)') =>
      /\ calls'[c].state = "resolved"
      /\ netLog' = netLog
      /\ translationCache' = translationCache

(* C22: each maybeTranslateSections call invokes the translation           *)
(* capability at most once; after a failed invocation the call returns the *)
(* untranslated sections at once, with no second attempt and no cache      *)
(* write.                                                                  *)
C22_NoRetry == []NoSecondAttempt /\ [][FailureReturnsAtOnce]_vars

\* C22's case: the request of a call for 'es' was rejected; the call has
\* returned its sections and the cache holds nothing for them
C22_Witness ==
  \E c \in 1..Len(calls) :
    /\ calls[c].sections = NotesA /\ calls[c].lang = "es"
    /\ calls[c].response = [fetch |-> "rejects"] /\ InvocationThrew(c)
    /\ Invocations(c) = 1 /\ calls[c].state = "resolved"
    /\ calls[c].result = NotesA
    /\ cacheKey(NotesA, "es") \notin DOMAIN translationCache

\* Calls i and j are for the same sections and language, and neither was
\* issued after the other had returned
ConcurrentIdentical(i, j) ==
  /\ i # j
  /\ calls[i].sections = calls[j].sections /\ calls[i].lang = calls[j].lang
  /\ i \notin calls[j].issuedAfter /\ j \notin calls[i].issuedAfter

\* When a call returns from its request: after a success the entry of its key
\* is its result, after a failure the cache is as it was; no other entry
\* changes and none disappears
LastSuccessfulWriterWins ==
  \A c \in 1..Len(calls) :
    (calls[c].state = "awaiting" /\ calls'[c].state # "awaiting") =>
      LET key == cacheKey(calls[c].sections, calls[c].lang)
      IN /\ DOMAIN translationCache \subseteq DOMAIN translationCache'
         /\ \A k \in DOMAIN translationCache \ {key} :
              translationCache'[k] = translationCache[k]
         /\ IF InvocationThrew(c)'
            THEN translationCache' = translationCache
            ELSE /\ key \in DOMAIN translationCache'
                 /\ translationCache'[key] = calls'[c].result

(* C23: under every interleaving of two concurrent maybeTranslateSections  *)
(* calls with identical sections and language, both may miss the cache and *)
(* both invoke the capability; afterwards the cache entry for that key is  *)
(* the result of the last call that completed successfully, and a failed   *)
(* call never removes or overwrites an existing entry.                     *)
C23_LastWriterIsCached == [][LastSuccessfulWriterWins]_vars

\* C23's case: two concurrent identical calls have both sent a request and
\* have returned different translations; the cache holds one of the two
C23_Witness ==
  \E i, j \in 1..Len(calls) :
    /\ ConcurrentIdentical(i, j) /\ calls[i].sections = NotesA
    /\ Invocations(i) = 1 /\ Invocations(j) = 1
    /\ calls[i].stored /\ calls[j].stored
    /\ calls[i].result # calls[j].result
    /\ translationCache[cacheKey(NotesA, calls[i].lang)] = calls[j].result

-----------------------------------------------------------------------------
(* Specification SpecShared: one sentence is given to the section          *)
(* detector of the extractor and to the topic classifier                   *)

\* The terms of the extractor's table, and sentences of a conversation
SectionTerms ==
  UNION {{keywords[k].terms[j] : j \in 1..Len(keywords[k].terms)} :
           k \in 1..Len(keywords)}

Sentences ==
  SectionTerms \cup
  UNION {{splitIntoSentences(Contents[c])[i] :
            i \in 1..Len(splitIntoSentences(Contents[c]))} : c \in 1..Len(Contents)}

InitShared ==
  /\ message \in Sentences
  /\ input = message /\ nPre = 0
  /\ lang = Unset /\ detected = NotDetected /\ reply = Unset
  /\ GenIdle /\ BpIdle /\ TrIdle /\ SvcIdle /\ ChatIdle /\ UiIdle

\* buildSections: const section = this.detectSectionForText(sentence.toLowerCase())
DetectSection ==
  /\ sectionFound = Unset
  /\ sectionFound' = detectSectionForText(ToLowerCase(message))
  /\ UNCHANGED <<messages, text, sentences, sections, aiVars, genVars, chatVars,
                 trVars, svcVars, uiVars>>

NextShared == PreprocessMessage \/ DetectTopic \/ DetectSection

SpecShared == InitShared /\ [][NextShared]_vars

\* The section that stands for a topic; the other topics have none
SectionOfTopic(tp) ==
  CASE tp = "name" -> "identity"
    [] tp = "location" -> "habitat"
    [] tp = "food" -> "diet"
    [] tp = "skills" -> "skills"
    [] tp = "problems" -> "challenges"
    [] tp = "message" -> "message"
    [] tp = "future" -> "future"
    [] OTHER -> Null

(* C21: the section that the extractor assigns to a sentence is the result *)
(* of the one shared topic classifier restricted to the 7 sections: for    *)
(* every sentence, detectSectionForText agrees with detectTopic under the  *)
(* label correspondence name/identity, location/habitat, food/diet,        *)
(* skills, problems/challenges, message, future.                           *)
C21_SectionIsTopicOfSharedClassifier ==
  (NormalizedAndClassified /\ sectionFound # Unset) =>
     sectionFound = SectionOfTopic(detected.topic)

\* The extractor files a sentence under habitat that the classifier gives
\* no topic at all, in no pass
C21_SectionWithoutTopic ==
  /\ message = "I roam the sea ice near Svalbard."
  /\ NormalizedAndClassified
  /\ detected.topic = Null /\ detected.pass = "none"
  /\ sectionFound = "habitat"
-----------------------------------------------------------------------------
(* ChatManager *)

\* const curatedTopics = [...] in sendMessage
curatedTopics == {"greeting", "name", "location", "food", "skills", "problems", "message"}

\* The apology the catch block of sendMessage adds
Apology == "I'm having trouble thinking right now. Could you try asking me something else?"

\* getSystemPrompt(): the opening words of the prompt of each language
getSystemPrompt(lng) ==
  IF lng = "es" THEN "Eres Polar, un oso polar" ELSE "You are Polar, a super friendly and intelligent polar bear"

\* conversationHistory.slice(-10)
historyLimit == 10

\* Array.prototype.slice(-n)
SliceLast(seq, n) ==
  IF Len(seq) <= n THEN seq ELSE SubSeq(seq, Len(seq) - n + 1, Len(seq))

\* buildMessageHistory(conversationHistory, userMessage), the language of the
\* system prompt made explicit
buildMessageHistory(conversationHistory, userMessage, lng) ==
  LET recentHistory == SliceLast(conversationHistory, historyLimit)
  IN <<[role |-> "system", content |-> getSystemPrompt(lng)]>>
     \o [k \in 1..Len(recentHistory) |->
           [role |-> recentHistory[k].role, content |-> recentHistory[k].content]]
     \o <<[role |-> "user", content |-> userMessage]>>

\* this.messages.push({role, content, timestamp}) of addMessage
addMessage(stored, content, isUser) ==
  Append(stored, [role |-> IF isUser THEN "user" ELSE "assistant", content |-> content])

\* A sendMessage call that sent no request to the provider
NoRequest == <<>>

\* A sendMessage call that has returned
Returned == [pc |-> "done"]

-----------------------------------------------------------------------------
(* Specification SpecChat: the visitor sends messages, resets the chat and *)
(* changes the settings while replies and database writes settle           *)

\* What the visitor may have typed when sendMessage runs
ChatInputs == {"Hello", " zqll", ""}

\* The draws of Math.random() tried for a curated or general reply
ChatDraws == {RandomSteps - 1}

\* How the request of a sendMessage call may end
ChatOutcomes ==
  { [fetch |-> "rejects"],
    [fetch |-> "resolves", ok |-> TRUE, json |-> "value", wellFormed |-> TRUE,
     content |-> "  I eat seals!\n"] }

\* What the visitor may have typed in the API key field
KeyInputs == {"", " sk-or-key", "sk-other"}

\* getLang() as the page stands
pageLang == getLang(langSource.stored, langSource.docLang, langSource.throws)

\* The settings stores an earlier visit may have left
StoredSettings ==
  { <<>>,
    [aiMode |-> "true", autoSave |-> "true"],
    [apiKey |-> "sk-or-key", aiMode |-> "true", autoSave |-> "false"] }

\* db.getSetting(key): request.result ? request.result.value : null
getSetting(store, key) == IF key \in DOMAIN store THEN store[key] ELSE Null

\* The constructor has run and loadSettings has read the settings store;
\* connected is the outcome of testConnection for a stored key
InitChat ==
  /\ settings \in StoredSettings
  /\ aiMode = (getSetting(settings, "aiMode") = "true")
  /\ autoSave = (getSetting(settings, "autoSave") # "false")
  /\ \E connected \in BOOLEAN :
       IF getSetting(settings, "apiKey") # Null
       THEN apiKey = getSetting(settings, "apiKey") /\ isAvailable = connected
       ELSE SvcIdle
  /\ isTyping = FALSE /\ sends = <<>> /\ notice = NoNotice
  /\ AIIdle /\ GenIdle /\ BpIdle /\ TrIdle /\ UiIdle

\* sendMessage() up to its first await: value is the content of the input
\* field, r the draw of getFallbackResponse when the reply is a curated one
SendMessage(value, r) ==
  LET msg == Trim(value)
  IN IF msg = "" \/ isTyping
     THEN UNCHANGED vars
     ELSE LET stored == addMessage(messages, msg, TRUE)
              topic == Classified[msg].detected.topic
              asks == /\ topic \notin curatedTopics
                      /\ aiMode /\ isAvailable
                      /\ generateRoute(isAvailable, apiKey) = "request"
          IN /\ messages' = stored
             /\ isTyping' = TRUE
             /\ sends' = Append(sends,
                  [message |-> msg, pc |-> "reply",
                   response |-> IF asks THEN Unset ELSE selectResponse(topic, pageLang, r),
                   request |-> IF asks
                               THEN buildMessageHistory(stored, Classified[msg].input, pageLang)
                               ELSE NoRequest,
                   resetSince |-> FALSE])
             /\ UNCHANGED <<aiMode, autoSave, settings, notice, text, sentences,
                            sectionFound, sections, aiVars, genVars, trVars, svcVars, uiVars>>

\* Call i of sendMessage gets its reply and the typing delay ends: response is
\* how the request to the provider ended, r the draw of the fallback reply
ReplyArrives(i, response, r) ==
  /\ i \in 1..Len(sends)
  /\ sends[i].pc = "reply"
  /\ LET attempt == completion(response)
         content == IF sends[i].request = NoRequest THEN sends[i].response
                    ELSE IF attempt.threw
                    THEN selectResponse(Classified[sends[i].message].detected.topic, pageLang, r)
                    ELSE attempt.value
     IN /\ isTyping' = FALSE
        /\ messages' = addMessage(messages, content, FALSE)
        /\ sends' = [sends EXCEPT ![i].response = content,
                                  ![i].pc = IF autoSave THEN "saving" ELSE "analytics"]
  /\ UNCHANGED <<aiMode, autoSave, settings, notice, text, sentences,
                 sectionFound, sections, aiVars, genVars, trVars, svcVars, uiVars>>

\* await this.saveConversation() of call i returns; saveConversation catches
\* the rejection of db.saveConversation itself
ConversationSaved(i) ==
  /\ i \in 1..Len(sends)
  /\ sends[i].pc = "saving"
  /\ sends' = [sends EXCEPT ![i].pc = "analytics"]
  /\ UNCHANGED <<isTyping, aiMode, autoSave, settings, notice, bpVars, aiVars,
                 genVars, trVars, svcVars, uiVars>>

\* await this.db.saveAnalytics(...) of call i settles: when it rejects the
\* catch block of sendMessage runs
AnalyticsSettles(i, ok) ==
  /\ i \in 1..Len(sends)
  /\ sends[i].pc = "analytics"
  /\ sends' = [sends EXCEPT ![i] = Returned]
  /\ IF ok
     THEN UNCHANGED <<isTyping, messages>>
     ELSE /\ isTyping' = FALSE
          /\ messages' = addMessage(messages, Apology, FALSE)
  /\ UNCHANGED <<aiMode, autoSave, settings, notice, text, sentences,
                 sectionFound, sections, aiVars, genVars, trVars, svcVars, uiVars>>

\* resetChat(): confirmed is the answer to confirm(). resetSince marks the
\* calls of sendMessage that had not returned when the chat was reset
ResetChat(confirmed) ==
  IF ~confirmed
  THEN UNCHANGED vars
  ELSE /\ messages' = <<>>
       /\ sends' = [i \in 1..Len(sends) |->
                      IF sends[i].pc = "done" THEN sends[i]
                      ELSE [sends[i] EXCEPT !.resetSince = TRUE]]
       /\ UNCHANGED <<isTyping, aiMode, autoSave, settings, notice, text, sentences,
                      sectionFound, sections, aiVars, genVars, trVars, svcVars, uiVars>>

ToggleAIMode ==
  /\ aiMode' = ~aiMode
  /\ UNCHANGED <<isTyping, autoSave, sends, settings, notice, bpVars, aiVars,
                 genVars, trVars, svcVars, uiVars>>

ToggleAutoSave ==
  /\ autoSave' = ~autoSave
  /\ UNCHANGED <<isTyping, aiMode, sends, settings, notice, bpVars, aiVars,
                 genVars, trVars, svcVars, uiVars>>

\* Boolean.prototype.toString
BoolToString(b) == IF b THEN "true" ELSE "false"

\* The settings store after the saveSetting calls of writes, in order
RECURSIVE SaveAll(_, _)
SaveAll(store, writes) ==
  IF writes = <<>> THEN store
  ELSE SaveAll(MapSet(store, writes[1].key, writes[1].value), Tail(writes))

\* this.showMessage('Invalid API key. Please check your OpenAI API key.', 'error')
InvalidKeyNotice ==
  [type |-> "error", text |-> "Invalid API key. Please check your OpenAI API key."]

\* saveSettings(): value is the content of the API key field, connected the
\* outcome of testConnection, failAt the saveSetting call that rejects (0 when
\* none does)
SaveSettings(value, connected, failAt) ==
  LET key == Trim(value)
      valid == key # "" /\ connected
      writes == (IF valid THEN <<[key |-> "apiKey", value |-> key]>> ELSE <<>>)
                \o <<[key |-> "aiMode", value |-> BoolToString(aiMode)],
                     [key |-> "autoSave", value |-> BoolToString(autoSave)]>>
      rejected == failAt \in 1..Len(writes)
  IN /\ IF key # ""
        THEN /\ apiKey' = key
             /\ isAvailable' = connected
        ELSE UNCHANGED svcVars
     /\ IF key # "" /\ ~connected
        THEN /\ notice' = InvalidKeyNotice
             /\ UNCHANGED settings
        ELSE /\ settings' = SaveAll(settings,
                              IF rejected THEN SubSeq(writes, 1, failAt - 1) ELSE writes)
             /\ notice' = IF rejected
                          THEN [type |-> "error",
                                text |-> "Failed to save settings. Please try again."]
                          ELSE [type |-> "success", text |-> "Settings saved successfully!"]
     /\ UNCHANGED <<isTyping, aiMode, autoSave, sends, bpVars, aiVars, genVars,
                    trVars, uiVars>>

\* Most sendMessage calls that get past the guard in one behaviour
MaxSends == 3

NextChat ==
  \/ /\ Len(sends) < MaxSends
     /\ \E value \in ChatInputs, r \in ChatDraws : SendMessage(value, r)
  \/ \E i \in 1..MaxSends, response \in ChatOutcomes, r \in ChatDraws :
       ReplyArrives(i, response, r)
  \/ \E i \in 1..MaxSends : ConversationSaved(i)
  \/ \E i \in 1..MaxSends, ok \in BOOLEAN : AnalyticsSettles(i, ok)
  \/ \E confirmed \in BOOLEAN : ResetChat(confirmed)
  \/ ToggleAIMode
  \/ ToggleAutoSave

SpecChat == InitChat /\ [][NextChat]_vars

-----------------------------------------------------------------------------
(* Specification SpecSettings: the visitor flips the toggles and saves the *)
(* settings, with keys that pass the connection test and keys that fail it *)

NextSettings ==
  \/ ToggleAIMode
  \/ ToggleAutoSave
  \/ \E value \in KeyInputs, connected \in BOOLEAN, failAt \in 0..3 :
       SaveSettings(value, connected, failAt)

SpecSettings == InitChat /\ [][NextSettings]_vars

-----------------------------------------------------------------------------
(* Specification SpecHistory: one long conversation in which the provider  *)
(* answers and the database writes succeed, so that the history grows past *)
(* what buildMessageHistory carries                                        *)

\* The answer of the provider in the long conversation
HistoryOutcomes == {response \in ChatOutcomes : response.fetch = "resolves"}

\* Most sendMessage calls of the long conversation
MaxHistorySends == 6

NextHistory ==
  \/ /\ Len(sends) < MaxHistorySends
     /\ \E r \in ChatDraws : SendMessage(" zqll", r)
  \/ \E i \in 1..MaxHistorySends, response \in HistoryOutcomes, r \in ChatDraws :
       ReplyArrives(i, response, r)
  \/ \E i \in 1..MaxHistorySends : ConversationSaved(i)
  \/ \E i \in 1..MaxHistorySends : AnalyticsSettles(i, TRUE)

SpecHistory == InitChat /\ [][NextHistory]_vars

-----------------------------------------------------------------------------
(* Claims about ChatManager *)

\* Every sendMessage call made so far has returned
Settled == \A i \in 1..Len(sends) : sends[i].pc = "done"

\* The positions of the user messages of this.messages
UserPositions == {k \in 1..Len(messages) : messages[k].role = "user"}

\* The assistant messages that follow the user message at k, up to the next
\* user message
AnswersTo(k) ==
  {a \in (k + 1)..Len(messages) :
     /\ messages[a].role = "assistant"
     /\ \A u \in UserPositions : ~(k < u /\ u < a)}

(* C24: once every sendMessage call has returned, every user message of    *)
(* this.messages is answered by exactly one assistant message, the reply   *)
(* or the apology, also when saving the conversation or the analytics      *)
(* record failed.                                                          *)
C24_EveryUserMessageAnsweredOnce ==
  Settled => \A k \in UserPositions : Cardinality(AnswersTo(k)) = 1

\* One message was sent and answered, saveAnalytics rejected, and the
\* conversation holds the reply and the apology
C24_ReplyAndApology ==
  /\ Settled
  /\ Len(sends) = 1
  /\ Len(messages) = 3
  /\ messages[1] = [role |-> "user", content |-> "Hello"]
  /\ messages[2].role = "assistant" /\ messages[2].content # Apology
  /\ messages[3] = [role |-> "assistant", content |-> Apology]

\* The sendMessage calls that wait for their reply
PendingReplies == {i \in 1..Len(sends) : sends[i].pc = "reply"}

\* At most one reply is being generated, and isTyping is true exactly while
\* one is
TypingGuardsReply ==
  /\ Cardinality(PendingReplies) <= 1
  /\ isTyping <=> PendingReplies # {}

\* While isTyping is true no step starts a sendMessage call or appends a user
\* message
IgnoredWhileTyping ==
  isTyping =>
    /\ Len(sends') = Len(sends)
    /\ ~(Len(messages') = Len(messages) + 1 /\ messages'[Len(messages')].role = "user")

(* C25: while a reply is pending isTyping is true and every further        *)
(* sendMessage call is ignored, appending no message and starting no reply *)
(* generation, so at most one reply generation is in flight at any time;   *)
(* isTyping is false again once the pending call has got past its reply,   *)
(* on the success path and on the error path.                              *)
C25_OneReplyAtATime == []TypingGuardsReply /\ [][IgnoredWhileTyping]_vars

\* Two sendMessage calls wait for their reply at the same time
C25_TwoRepliesInFlight ==
  /\ Cardinality(PendingReplies) = 2
  /\ \E i \in 1..Len(sends) : sends[i] = Returned

\* A sendMessage call that had not returned when the chat was reset adds
\* nothing to this.messages afterwards
StaleCallAppendsNothing ==
  \A i \in 1..Len(sends) :
    (sends[i] # Returned /\ sends[i].resetSince /\ sends'[i] # sends[i])
      => messages' = messages

(* C26: after a confirmed resetChat this.messages holds no message of the  *)
(* conversation before the reset: a sendMessage call issued before the     *)
(* reset and still waiting at the reset adds neither its reply nor an       *)
(* apology to the new conversation.                                        *)
C26_NothingFromBeforeReset == [][StaleCallAppendsNothing]_vars

\* The chat was reset while its only sendMessage call waited for the reply,
\* and the new conversation consists of that reply
C26_ReplyToClearedMessage ==
  /\ Len(sends) = 1
  /\ sends[1] # Returned
  /\ sends[1].resetSince
  /\ sends[1].pc # "reply"
  /\ messages = <<[role |-> "assistant", content |-> sends[1].response]>>

\* A step that ends with the invalid-key error on display leaves the settings
\* store and the AI service as they were
InvalidKeyChangesNothing ==
  notice' = InvalidKeyNotice =>
    /\ settings' = settings
    /\ apiKey' = apiKey
    /\ isAvailable' = isAvailable

(* C28: when saveSettings is given an API key that fails the connection    *)
(* test it reports the error and leaves the state as it was: nothing is    *)
(* written to the settings store, and the AI service keeps the apiKey and  *)
(* the isAvailable value it had before the call.                           *)
C28_InvalidKeyLeavesState == [][InvalidKeyChangesNothing]_vars

\* The store holds the key that was saved, while the service holds the key
\* that failed the connection test and is unavailable
C28_ServiceHoldsRejectedKey ==
  /\ notice = InvalidKeyNotice
  /\ getSetting(settings, "apiKey") = "sk-or-key"
  /\ apiKey = "sk-other"
  /\ isAvailable = FALSE

\* The sendMessage calls in flight that sent a request to the provider
Requesting ==
  {i \in 1..Len(sends) : sends[i] # Returned /\ sends[i].request # NoRequest}

\* The history messages a request carries, between the system prompt and the
\* current user message
HistoryPart(request) == SubSeq(request, 2, Len(request) - 1)

(* C30: the message list generateResponse sends for a sendMessage call     *)
(* starts with the system prompt, carries at most the last 10 history      *)
(* messages, ends with the current user message, and contains the current  *)
(* user message exactly once: the history it carries does not end with     *)
(* that message as well.                                                   *)
C30_RequestShape ==
  \A i \in Requesting :
    LET request == sends[i].request
        history == HistoryPart(request)
    IN /\ request[1] = [role |-> "system", content |-> getSystemPrompt(pageLang)]
       /\ Len(history) <= historyLimit
       /\ request[Len(request)] =
            [role |-> "user", content |-> preprocessMessage(sends[i].message)]
       /\ ~(/\ history # <<>>
            /\ history[Len(history)] = [role |-> "user", content |-> sends[i].message])

\* A request of the long conversation: the history is cut to 10 messages, and
\* its last message is the current user message, which follows once more
C30_CurrentMessageTwice ==
  \E i \in Requesting :
    LET request == sends[i].request
    IN /\ sends[i].pc = "reply"
       /\ Len(messages) > historyLimit
       /\ Len(request) = historyLimit + 2
       /\ request[Len(request) - 1] = [role |-> "user", content |-> "zqll"]
       /\ request[Len(request)] = [role |-> "user", content |-> "zqll"]

-----------------------------------------------------------------------------
(* Claims about the blueprint button and the sections it renders *)

(* C27: once every translation has completed, after any sequence of        *)
(* blueprint-button clicks and close-button clicks, the aria-expanded      *)
(* attribute of the button is 'true' exactly when the blueprint container  *)
(* is displayed with content.                                              *)
C27_AriaMatchesDisplay ==
  AwaitingCalls = {} => ((ariaExpanded = "true") <=> isVisible)

\* The blueprint was rendered and then closed with its close button: the
\* container is hidden, nothing is pending, the button still says expanded
C27_ExpandedButHidden ==
  /\ AwaitingCalls = {}
  /\ calls # <<>>
  /\ rendered = Hidden
  /\ ariaExpanded = "true"

\* buildSections of each conversation getLatestMessages may return
ExtractionOf == [conv \in Conversations |-> buildSections(conv)]

\* The untranslated extraction of the conversation
Extraction == ExtractionOf[messages]

(* C29: maybeTranslateSections never changes the sections object it is     *)
(* given, whether it answers from the cache, translates or fails: what     *)
(* this.lastSectionsSource holds is always the untranslated extraction,    *)
(* and every call made by handleGenerateClick or reRenderForLanguage is    *)
(* given that extraction, never an earlier translation.                    *)
C29_SourceStaysUntranslated ==
  /\ sections # NotBuilt => sections = Extraction
  /\ \A c \in 1..Len(calls) : calls[c].sections = Extraction

\* A translation was stored and rendered, and a later call made for another
\* language was still given the extraction
C29_Witness ==
  /\ Len(calls) = 2
  /\ calls[1].stored
  /\ calls[1].result # calls[1].sections
  /\ 1 \in calls[2].issuedAfter
  /\ calls[2].lang # calls[1].lang
  /\ calls[2].sections = Extraction
  /\ sections = Extraction

=============================================================================
